---- MODULE Spec2Model ----
(***************************************************************************)
(* A model of the nihil relay server: the Redis keyspace (internal/redis), *)
(* the WebSocket hub and its sessions (internal/websocket) and the HTTP    *)
(* handlers that touch them (internal/api).                                *)
(*                                                                         *)
(* Time is the wall clock in milliseconds (time.Now().UnixMilli()); a key  *)
(* written with a TTL carries its absolute expiry and is removed when the  *)
(* clock reaches it.                                                       *)
(***************************************************************************)
EXTENDS Integers, Sequences, FiniteSets, TLC

VARIABLES
    now,        \* wall clock, ms
    ticks,      \* number of clock advances taken
    rdb,        \* the Redis keyspace, one field per key family
    hub,        \* Hub: clients, connections, chatParticipants, unregister
    client,     \* per session: Client.deviceUUID, authed, send, closed, reading
    panicked,   \* the process died in a send on a closed channel
    nframes,    \* number of inbound frames / HTTP requests dispatched
    last,       \* the operation dispatched by the last step
    joinRes,    \* per JoinChat caller: the call and what it returned
    fetch,      \* per key-bundle caller: position and returned prekey
    regBy,      \* per routing key: the session whose chat.register wrote it
    mu,         \* Hub.mu: the goroutine holding Lock, the goroutines holding RLock
    pc          \* per goroutine: where it stands in a handler run step by step

vars == <<now, ticks, rdb, hub, client, panicked, nframes, last, joinRes, fetch, regBy,
          mu, pc>>

---------------------------------------------------------------------------
(* Bounds of the model *)

MaxTicksJ == 2
MaxTicksQ == 1
MaxTicksR == 3
MaxTicksH == 1
NCallers == 3
NFetchers == 3
MaxPreKeys == 3
MaxFramesQ == 5
MaxFramesR == 7
MaxFramesH == 4
MaxFramesS == 4
MaxFramesA == 3
MaxTicksA == 1
MaxFramesB == 256
MaxTakenB == 2
MaxFramesZ == 3
MaxFramesD == 3
MaxFramesP == 3
MaxTicksP == 3
RateLimitPerMinute == 2
WordHalf == 8388608

(* Program constants, in ms unless noted *)

RateLimitWindow == 60000
MaxChatTTL == 300000
WarningExpiry == 86400000
ChatKeyTTL == 86400000
InviteUsedTTL == 3600000
MsgHashTTL == 300000
MsgTimingTTL == 60000
SpamThreshold == 10
BotThreshold == 20
BotGapMs == 500
AuthSkewSec == 300
MaxContentLen == 10240
maxMessageSize == 10240
SendBuffer == 256
KeyBundleTTL == 2592000
DayPlan == 86400000
CodeUsedTTL == 3600000
SubFallbackTTL == 3600000
PushTTL == 86400000

NoExpiry == 0 - 1

---------------------------------------------------------------------------
(* The universe of identifiers *)

Devices == {"dA", "dB", "dC"}
Sessions == {"s1", "s2"}
Chats == {"c1", "c2"}
Tokens == {"t1", "t0"}
Pids == {"pA", "pB", "pX"}
Mids == {"m1", "m2"}
Callers == 1..NCallers
Fetchers == 1..NFetchers
PreKeyIds == 1..MaxPreKeys

Contents == {"x", "y"}
Codes == {"k1", "k2", "k3", "k4"}

NoDevice == ""
NoSession == ""
NoKey == [exists |-> FALSE]

\* HashSecret: hex(SHA-256(secret)); injective on the secrets of the model.
HashSecret(secret) == <<"sha256", secret>>

---------------------------------------------------------------------------
(* Redis keys with a TTL *)

\* A key is gone once the clock reaches its expiry.
Expired(e, t) == e.exists /\ e.exp # NoExpiry /\ e.exp <= t

SweepKey(e, t) == IF Expired(e, t) THEN NoKey ELSE e

SweepMap(f, t) == [k \in DOMAIN f |-> SweepKey(f[k], t)]

EmptyZSet == [members |-> {}, exp |-> NoExpiry]
EmptyList == [ids |-> <<>>, exp |-> NoExpiry]

SweepRate(z, t) == IF z.exp # NoExpiry /\ z.exp <= t THEN EmptyZSet ELSE z
SweepList(l, t) == IF l.exp # NoExpiry /\ l.exp <= t THEN EmptyList ELSE l

Sweep(db, t) ==
    [db EXCEPT
        !.sub = SweepMap(@, t),
        !.chat = SweepMap(@, t),
        !.invite = SweepMap(@, t),
        !.msg = SweepMap(@, t),
        !.msg_queue = [c \in DOMAIN @ |-> SweepList(@[c], t)],
        !.warn = SweepMap(@, t),
        !.rate = [d \in DOMAIN @ |-> SweepRate(@[d], t)],
        !.msghash = SweepMap(@, t),
        !.msgtiming = SweepMap(@, t),
        !.botcount = SweepMap(@, t),
        !.prekeys = SweepMap(@, t \div 1000),
        !.keybundle = SweepMap(@, t \div 1000),
        !.code = SweepMap(@, t),
        !.push = SweepMap(@, t)]

EmptyDb ==
    [pubkey |-> [d \in Devices |-> NoKey],
     sub |-> [d \in Devices |-> NoKey],
     ban |-> [d \in Devices |-> NoKey],
     warn |-> [d \in Devices |-> NoKey],
     rate |-> [d \in Devices |-> EmptyZSet],
     msghash |-> [k \in Devices \X {<<"sha256", b>> : b \in Contents} |-> NoKey],
     msgtiming |-> [d \in Devices |-> NoKey],
     botcount |-> [d \in Devices |-> NoKey],
     chat |-> [c \in Chats |-> NoKey],
     invite |-> [t \in Tokens |-> NoKey],
     msg |-> [k \in Chats \X Mids |-> NoKey],
     msg_queue |-> [c \in Chats |-> EmptyList],
     keybundle |-> [d \in Devices |-> NoKey],
     prekeys |-> [d \in Devices |-> NoKey],
     code |-> [k \in Codes |-> NoKey],
     push |-> [k \in Chats \X Pids |-> NoKey]]

---------------------------------------------------------------------------
(* internal/redis/chat.go: chats and invitations *)

CreateChatSetChat(db, t, chatUUID, participantID, participantSecret, creatorDeviceID) ==
    [db EXCEPT !.chat[chatUUID] =
        [exists |-> TRUE,
         participant_a |-> participantID,
         participant_a_secret |-> HashSecret(participantSecret),
         participant_a_device |-> creatorDeviceID,
         participant_b |-> "",
         participant_b_secret |-> <<>>,
         participant_b_device |-> "",
         status |-> "pending",
         created_at |-> t,
         exp |-> t + ChatKeyTTL]]

CreateChatSetInvite(db, t, chatUUID, creatorDeviceID, invitationToken) ==
    [db EXCEPT !.invite[invitationToken] =
        [exists |-> TRUE,
         chat_uuid |-> chatUUID,
         creator_device_id |-> creatorDeviceID,
         used |-> FALSE,
         exp |-> t + ChatKeyTTL]]

CreateChat(db, t, chatUUID, participantID, participantSecret, creatorDeviceID, invitationToken) ==
    CreateChatSetInvite(
        CreateChatSetChat(db, t, chatUUID, participantID, participantSecret, creatorDeviceID),
        t, chatUUID, creatorDeviceID, invitationToken)

\* A join script that neither flips the status nor marks the invitation used.
JoinScriptNoFlip(db, t, token, joinerDevice, participantID, secretHash) ==
    LET inv == db.invite[token] IN
    IF ~inv.exists THEN [code |-> 0 - 1, rdb |-> db, creator |-> ""]
    ELSE IF inv.used THEN [code |-> 0 - 2, rdb |-> db, creator |-> ""]
    ELSE LET ch == db.chat[inv.chat_uuid] IN
         IF ~ch.exists THEN [code |-> 0 - 1, rdb |-> db, creator |-> ""]
         ELSE IF ch.status # "pending" THEN [code |-> 0 - 4, rdb |-> db, creator |-> ""]
         ELSE IF ch.participant_a = participantID
              THEN [code |-> 0 - 3, rdb |-> db, creator |-> ""]
         ELSE [code |-> 1,
               rdb |-> [db EXCEPT
                   !.chat[inv.chat_uuid] =
                       [ch EXCEPT !.participant_b = participantID,
                                  !.participant_b_secret = secretHash,
                                  !.participant_b_device = joinerDevice,
                                  !.exp = NoExpiry]],
               creator |-> inv.creator_device_id]

\* A join script that also writes the joiner's device over the creator's.
JoinScriptTakesA(db, t, token, joinerDevice, participantID, secretHash) ==
    LET inv == db.invite[token] IN
    IF ~inv.exists THEN [code |-> 0 - 1, rdb |-> db, creator |-> ""]
    ELSE IF inv.used THEN [code |-> 0 - 2, rdb |-> db, creator |-> ""]
    ELSE LET ch == db.chat[inv.chat_uuid] IN
         IF ~ch.exists THEN [code |-> 0 - 1, rdb |-> db, creator |-> ""]
         ELSE IF ch.status # "pending" THEN [code |-> 0 - 4, rdb |-> db, creator |-> ""]
         ELSE IF ch.participant_a = participantID
              THEN [code |-> 0 - 3, rdb |-> db, creator |-> ""]
         ELSE [code |-> 1,
               rdb |-> [db EXCEPT
                   !.chat[inv.chat_uuid] =
                       [ch EXCEPT !.participant_b = participantID,
                                  !.participant_b_secret = secretHash,
                                  !.participant_b_device = joinerDevice,
                                  !.participant_a_device = joinerDevice,
                                  !.status = "active",
                                  !.exp = NoExpiry],
                   !.invite[token] =
                       [inv EXCEPT !.used = TRUE, !.exp = t + InviteUsedTTL]],
               creator |-> inv.creator_device_id]

\* A join script that marks the invitation used before it compares the
\* participant IDs.
JoinScriptEagerUse(db, t, token, joinerDevice, participantID, secretHash) ==
    LET inv == db.invite[token] IN
    IF ~inv.exists THEN [code |-> 0 - 1, rdb |-> db, creator |-> ""]
    ELSE IF inv.used THEN [code |-> 0 - 2, rdb |-> db, creator |-> ""]
    ELSE LET ch == db.chat[inv.chat_uuid] IN
         IF ~ch.exists THEN [code |-> 0 - 1, rdb |-> db, creator |-> ""]
         ELSE IF ch.status # "pending" THEN [code |-> 0 - 4, rdb |-> db, creator |-> ""]
         ELSE IF ch.participant_a = participantID
              THEN [code |-> 0 - 3,
                    rdb |-> [db EXCEPT !.invite[token] =
                                [inv EXCEPT !.used = TRUE, !.exp = t + InviteUsedTTL]],
                    creator |-> ""]
         ELSE [code |-> 1,
               rdb |-> [db EXCEPT
                   !.chat[inv.chat_uuid] =
                       [ch EXCEPT !.participant_b = participantID,
                                  !.participant_b_secret = secretHash,
                                  !.participant_b_device = joinerDevice,
                                  !.status = "active",
                                  !.exp = NoExpiry],
                   !.invite[token] =
                       [inv EXCEPT !.used = TRUE, !.exp = t + InviteUsedTTL]],
               creator |-> inv.creator_device_id]

\* The Lua joinScript, one atomic Redis evaluation. SET without EX drops the
\* chat key's TTL; the used invitation is kept for one hour.
JoinScript(db, t, token, joinerDevice, participantID, secretHash) ==
    LET inv == db.invite[token] IN
    IF ~inv.exists THEN [code |-> 0 - 1, rdb |-> db, creator |-> ""]
    ELSE IF inv.used THEN [code |-> 0 - 2, rdb |-> db, creator |-> ""]
    ELSE LET ch == db.chat[inv.chat_uuid] IN
         IF ~ch.exists THEN [code |-> 0 - 1, rdb |-> db, creator |-> ""]
         ELSE IF ch.status # "pending" THEN [code |-> 0 - 4, rdb |-> db, creator |-> ""]
         ELSE IF ch.participant_a = participantID
              THEN [code |-> 0 - 3, rdb |-> db, creator |-> ""]
         ELSE [code |-> 1,
               rdb |-> [db EXCEPT
                   !.chat[inv.chat_uuid] =
                       [ch EXCEPT !.participant_b = participantID,
                                  !.participant_b_secret = secretHash,
                                  !.participant_b_device = joinerDevice,
                                  !.status = "active",
                                  !.exp = NoExpiry],
                   !.invite[token] =
                       [inv EXCEPT !.used = TRUE, !.exp = t + InviteUsedTTL]],
               creator |-> inv.creator_device_id]

\* IsDeviceParticipant: [ok, participant_id] of the device in the chat.
IsDeviceParticipant(db, chatUUID, deviceUUID) ==
    LET chat == db.chat[chatUUID] IN
    IF ~chat.exists THEN [ok |-> FALSE, participant_id |-> ""]
    ELSE IF chat.participant_a_device = deviceUUID
    THEN [ok |-> TRUE, participant_id |-> chat.participant_a]
    ELSE IF chat.participant_b_device = deviceUUID
    THEN [ok |-> TRUE, participant_id |-> chat.participant_b]
    ELSE [ok |-> FALSE, participant_id |-> ""]

\* JoinChat's mapping of the script's code to its error.
JoinError(code) ==
    CASE code = 1 -> "ok"
      [] code = 0 - 1 -> "invitation not found"
      [] code = 0 - 2 -> "invitation already used"
      [] code = 0 - 3 -> "cannot join with same participant ID"
      [] code = 0 - 4 -> "chat is not pending"
      [] OTHER -> "unknown error"

---------------------------------------------------------------------------
(* Key bundles and one-time prekeys (GetKeyBundle / ConsumePreKey) *)

NoPreKey == [id |-> 0, public_key |-> ""]

\* The prekey JSON stored under field id by StoreKeyBundle / AddPreKeys.
PreKeyOf(id) == [id |-> id, public_key |-> <<"pk", id>>]

\* A consume script that returns the prekey and leaves it in the hash.
ConsumeScriptNoDel(db, deviceUUID, id) ==
    LET h == db.prekeys[deviceUUID] IN
    [data |-> h.fields[id], rdb |-> db]

\* A consume script that returns the prekey and deletes the whole hash.
ConsumeScriptDelAll(db, deviceUUID, id) ==
    [data |-> db.prekeys[deviceUUID].fields[id],
     rdb |-> [db EXCEPT !.prekeys[deviceUUID] = NoKey]]

\* The Lua script of ConsumePreKey for the case HKEYS is not empty, id being
\* the field HKEYS lists first: HGET, HDEL, return the data. Redis deletes a
\* hash that lost its last field.
ConsumeScript(db, deviceUUID, id) ==
    LET h == db.prekeys[deviceUUID]
        rest == [i \in (DOMAIN h.fields) \ {id} |-> h.fields[i]]
    IN [data |-> h.fields[id],
        rdb |-> [db EXCEPT !.prekeys[deviceUUID] =
                    IF DOMAIN rest = {} THEN NoKey ELSE [h EXCEPT !.fields = rest]]]

\* HKEYS of the device's prekey hash.
HKeys(db, deviceUUID) ==
    IF db.prekeys[deviceUUID].exists THEN DOMAIN db.prekeys[deviceUUID].fields ELSE {}

\* StoreKeyBundle: SET keybundle:<device>; the prekey hash is replaced only
\* when the list of prekeys is not empty. The 30-day TTL of these two keys is
\* kept in seconds, the unit the script passes to EXPIRE.
StoreKeyBundle(db, t, deviceUUID, preKeys) ==
    LET db1 == [db EXCEPT !.keybundle[deviceUUID] =
                    [exists |-> TRUE, exp |-> (t \div 1000) + KeyBundleTTL]]
    IN IF preKeys = {} THEN db1
       ELSE [db1 EXCEPT !.prekeys[deviceUUID] =
                [exists |-> TRUE,
                 fields |-> [id \in preKeys |-> PreKeyOf(id)],
                 exp |-> (t \div 1000) + KeyBundleTTL]]

---------------------------------------------------------------------------
(* Wire values *)

\* sha256Hash: hex(SHA-256(bytes)); injective on the contents of the model.
sha256Hash(bytes) == <<"sha256", bytes>>

\* computeSignature: hex(HMAC-SHA256(key, "<device>:<timestamp>")).
computeSignature(key, deviceUUID, timestamp) == <<"hmac", key, deviceUUID, timestamp>>

\* base64: "std" is the encoding EncodeToString produces; "alt" is another
\* text DecodeString accepts for the same bytes (line breaks, loose padding
\* bits); "bad" does not decode.
B64Encode(bytes) == [enc |-> "std", bytes |-> bytes]
B64DecodeOk(e) == e.enc \in {"std", "alt"}
B64Decode(e) == e.bytes
ContentLen(bytes) == IF bytes = "huge" THEN MaxContentLen + 1
                     ELSE IF bytes = "big" THEN MaxContentLen ELSE 5
NoContent == [enc |-> "", bytes |-> ""]

\* The length of the base64 text of n bytes.
B64Len(n) == 4 * ((n + 2) \div 3)

\* The length of the text frame that carries a message.send: at least the
\* base64 text of its content.
FrameLen(p) == B64Len(ContentLen(B64Decode(p.encrypted_content)))

\* An outbound WSMessage. code holds an error code or a reason; a and b hold
\* the two counters of chat.register.ack and rate_limit.warning.
Frame(type) ==
    [type |-> type, chat_uuid |-> "", message_id |-> "", sender_uuid |-> "",
     sender_device_uuid |-> "", encrypted_content |-> NoContent,
     code |-> "", a |-> 0, b |-> 0]

ErrorFrame(code) == [Frame("error") EXCEPT !.code = code]
AuthFailed(reason) == [Frame("auth.failed") EXCEPT !.code = reason]
Banned(reason) == [Frame("banned") EXCEPT !.code = reason]
MsgFrame(type, chatUUID, messageID) ==
    [Frame(type) EXCEPT !.chat_uuid = chatUUID, !.message_id = messageID]
MessageReceived(chatUUID, messageID, senderUUID, senderDevice, content) ==
    [MsgFrame("message.received", chatUUID, messageID) EXCEPT
        !.sender_uuid = senderUUID,
        !.sender_device_uuid = senderDevice,
        !.encrypted_content = content]

---------------------------------------------------------------------------
(* internal/websocket/client.go *)

NewClient ==
    [deviceUUID |-> "", authed |-> FALSE, send |-> <<>>, taken |-> 0,
     closed |-> FALSE, reading |-> TRUE]

\* Frames in the send channel: put there and not yet taken by WritePump.
Buffered(c) == Len(c.send) - c.taken

\* Whether SendMessage would return nil.
SendOk(S, s) == ~S.panic /\ ~S.client[s].closed /\ Buffered(S.client[s]) < SendBuffer

\* A send that waits for no room: the frame is put whatever the channel holds.
SendMessageUnbounded(S, s, frame) ==
    IF S.panic THEN S
    ELSE IF S.client[s].closed THEN [S EXCEPT !.panic = TRUE]
    ELSE [S EXCEPT !.client[s].send = Append(@, frame)]

\* Client.SendMessage: a send on the closed channel panics; a full buffer
\* drops the frame (ErrClientBufferFull).
SendMessage(S, s, frame) ==
    IF S.panic THEN S
    ELSE IF S.client[s].closed THEN [S EXCEPT !.panic = TRUE]
    ELSE IF Buffered(S.client[s]) >= SendBuffer THEN S
    ELSE [S EXCEPT !.client[s].send = Append(@, frame)]

\* h.unregister <- client. The channel is unbuffered: the sequence holds the
\* clients handed to Hub.Run and not yet processed by it. A sender that would
\* still be blocked on the channel is let go on, which adds interleavings and
\* removes none.
Unregister(S, s) ==
    IF S.panic THEN S ELSE [S EXCEPT !.hub.unregister = Append(@, s)]

---------------------------------------------------------------------------
(* internal/redis/chat.go: participants and the message queue *)

\* A validation that looks at the participant ID alone.
ValidateParticipantAnySecret(db, chatUUID, participantID, secret) ==
    /\ chatUUID \in DOMAIN db.chat
    /\ db.chat[chatUUID].exists
    /\ participantID \in {db.chat[chatUUID].participant_a, db.chat[chatUUID].participant_b}

\* ValidateParticipant: TRUE only for (true, nil).
ValidateParticipant(db, chatUUID, participantID, secret) ==
    /\ chatUUID \in DOMAIN db.chat
    /\ db.chat[chatUUID].exists
    /\ LET chat == db.chat[chatUUID] IN
       IF chat.participant_a = participantID
       THEN chat.participant_a_secret = HashSecret(secret)
       ELSE IF chat.participant_b = participantID
            THEN chat.participant_b_secret = HashSecret(secret)
            ELSE FALSE

QueueMessageWithDevice(db, t, chatUUID, messageID, senderParticipant, senderDeviceUUID, content) ==
    [db EXCEPT
        !.msg[<<chatUUID, messageID>>] =
            [exists |-> TRUE,
             sender_participant |-> senderParticipant,
             sender_device_uuid |-> senderDeviceUUID,
             encrypted_content |-> content,
             exp |-> t + MaxChatTTL],
        !.msg_queue[chatUUID] =
            [ids |-> Append(@.ids, messageID), exp |-> t + MaxChatTTL]]

\* The keys of the map GetQueuedMessages returns: the IDs of the list whose
\* msg: entry is still there.
QueuedIds(db, chatUUID) ==
    IF chatUUID \notin DOMAIN db.msg_queue THEN {}
    ELSE {db.msg_queue[chatUUID].ids[i] : i \in
            {j \in 1..Len(db.msg_queue[chatUUID].ids) :
                db.msg[<<chatUUID, db.msg_queue[chatUUID].ids[j]>>].exists}}

\* The IDs of the list in list order, first occurrences only.
RECURSIVE Dedup(_)
Dedup(seq) ==
    IF seq = <<>> THEN <<>>
    ELSE LET init == Dedup(SubSeq(seq, 1, Len(seq) - 1))
             x == seq[Len(seq)]
         IN IF \E i \in 1..Len(init) : init[i] = x THEN init ELSE Append(init, x)

RECURSIVE RemoveFirst(_, _)
RemoveFirst(seq, x) ==
    IF seq = <<>> THEN <<>>
    ELSE IF Head(seq) = x THEN Tail(seq)
    ELSE <<Head(seq)>> \o RemoveFirst(Tail(seq), x)

\* DEL msg:<chat>:<id>; LREM msg_queue:<chat> 1 <id>. A list that lost its
\* last element is deleted by Redis.
DeleteQueuedMessage(db, chatUUID, messageID) ==
    IF chatUUID \notin DOMAIN db.msg_queue \/ <<chatUUID, messageID>> \notin DOMAIN db.msg
    THEN db
    ELSE LET ids == RemoveFirst(db.msg_queue[chatUUID].ids, messageID) IN
         [db EXCEPT
            !.msg[<<chatUUID, messageID>>] = NoKey,
            !.msg_queue[chatUUID] =
                IF ids = <<>> THEN EmptyList ELSE [@ EXCEPT !.ids = ids]]

---------------------------------------------------------------------------
(* internal/redis/blacklist.go *)

\* A store in which no device is ever found banned.
NeverBanned(db, deviceUUID) == FALSE

IsBanned(db, deviceUUID) == db.ban[deviceUUID].exists

\* SET ban:<device> with no expiry; DEL warn:<device>, rate:<device>.
BanDevice(db, t, deviceUUID, reason) ==
    [db EXCEPT
        !.ban[deviceUUID] = [exists |-> TRUE, reason |-> reason, banned_at |-> t,
                             exp |-> NoExpiry],
        !.warn[deviceUUID] = NoKey,
        !.rate[deviceUUID] = EmptyZSet]

\* AddWarning: [shouldBan, rdb].
AddWarning(db, t, deviceUUID, reason) ==
    LET warning == db.warn[deviceUUID] IN
    IF warning.exists /\ warning.count >= 1
    THEN [shouldBan |-> TRUE, rdb |-> db]
    ELSE [shouldBan |-> FALSE,
          rdb |-> [db EXCEPT !.warn[deviceUUID] =
                     [exists |-> TRUE,
                      count |-> IF warning.exists THEN warning.count + 1 ELSE 1,
                      reason |-> reason,
                      exp |-> t + WarningExpiry]]]

\* An abuse handler that only ever warns.
HandleAbuseLenient(db, t, deviceUUID, reason) ==
    IF IsBanned(db, deviceUUID) THEN [action |-> "ban", rdb |-> db]
    ELSE [action |-> "warning", rdb |-> AddWarning(db, t, deviceUUID, reason).rdb]

\* HandleAbuse: [action, rdb] with action "ban" or "warning".
HandleAbuse(db, t, deviceUUID, reason) ==
    IF IsBanned(db, deviceUUID) THEN [action |-> "ban", rdb |-> db]
    ELSE LET w == AddWarning(db, t, deviceUUID, reason) IN
         IF w.shouldBan
         THEN [action |-> "ban", rdb |-> BanDevice(w.rdb, t, deviceUUID, reason)]
         ELSE [action |-> "warning", rdb |-> w.rdb]

---------------------------------------------------------------------------
(* internal/redis/ratelimit.go *)

\* ZREMRANGEBYSCORE rate:<device> 0 (now - window): both ends inclusive.
RateEvict(z, t) ==
    LET kept == {m \in z.members : m > t - RateLimitWindow} IN
    IF kept = {} THEN EmptyZSet ELSE [z EXCEPT !.members = kept]

\* CheckRateLimit: [count, allowed, rdb]. The member added is the decimal
\* text of the millisecond, so two calls in one millisecond add one member.
CheckRateLimit(db, t, deviceUUID, limit) ==
    LET z == RateEvict(db.rate[deviceUUID], t)
        count == Cardinality(z.members)
    IN IF count >= limit
       THEN [count |-> count, allowed |-> FALSE,
             rdb |-> [db EXCEPT !.rate[deviceUUID] = z]]
       ELSE [count |-> count + 1, allowed |-> TRUE,
             rdb |-> [db EXCEPT !.rate[deviceUUID] =
                        [members |-> z.members \cup {t}, exp |-> t + RateLimitWindow]]]

\* INCR of a counter key: a missing key counts from zero and has no TTL;
\* EXPIRE then sets it.
Incr(e, exp) ==
    [exists |-> TRUE, n |-> (IF e.exists THEN e.n ELSE 0) + 1, exp |-> exp]

\* A RecordMessage that reports spam one message late.
RecordMessageLate(db, t, deviceUUID, messageHash) ==
    LET hk == <<deviceUUID, messageHash>>
        db1 == [db EXCEPT !.msghash[hk] = Incr(@, t + MsgHashTTL)]
        last_ == db1.msgtiming[deviceUUID]
        fast == last_.exists /\ t - last_.at < BotGapMs
        db2 == IF fast
               THEN [db1 EXCEPT !.botcount[deviceUUID] = Incr(@, t + MsgHashTTL)]
               ELSE db1
    IN IF db1.msghash[hk].n > SpamThreshold
       THEN [err |-> "spam detected", rdb |-> db1]
       ELSE IF fast /\ db2.botcount[deviceUUID].n >= BotThreshold
       THEN [err |-> "bot-like behavior detected", rdb |-> db2]
       ELSE [err |-> "",
             rdb |-> [db2 EXCEPT !.msgtiming[deviceUUID] =
                        [exists |-> TRUE, at |-> t, exp |-> t + MsgTimingTTL]]]

\* RecordMessage: [err, rdb]; err is "" for nil.
RecordMessage(db, t, deviceUUID, messageHash) ==
    LET hk == <<deviceUUID, messageHash>>
        db1 == [db EXCEPT !.msghash[hk] = Incr(@, t + MsgHashTTL)]
        last_ == db1.msgtiming[deviceUUID]
        fast == last_.exists /\ t - last_.at < BotGapMs
        db2 == IF fast
               THEN [db1 EXCEPT !.botcount[deviceUUID] = Incr(@, t + MsgHashTTL)]
               ELSE db1
    IN IF db1.msghash[hk].n >= SpamThreshold
       THEN [err |-> "spam detected", rdb |-> db1]
       ELSE IF fast /\ db2.botcount[deviceUUID].n >= BotThreshold
       THEN [err |-> "bot-like behavior detected", rdb |-> db2]
       ELSE [err |-> "",
             rdb |-> [db2 EXCEPT !.msgtiming[deviceUUID] =
                        [exists |-> TRUE, at |-> t, exp |-> t + MsgTimingTTL]]]

---------------------------------------------------------------------------
(* internal/redis/subscription.go, purge.go *)

\* IsSubscriptionActive, and the same test inlined in handleAuth.
IsSubscriptionActive(db, t, deviceUUID) ==
    /\ db.sub[deviceUUID].exists
    /\ db.sub[deviceUUID].status = "active"
    /\ ~(t > db.sub[deviceUUID].expires_at)

\* PurgeDevice: DEL sub, pubkey, keys, fcm, prekeys, rate, warn, user_chats.
\* No code writes user_chats:<device>, so the chat loop has nothing to do;
\* ban:<device> is not in the list.
PurgeDevice(db, deviceUUID) ==
    [db EXCEPT
        !.sub[deviceUUID] = NoKey,
        !.pubkey[deviceUUID] = NoKey,
        !.prekeys[deviceUUID] = NoKey,
        !.rate[deviceUUID] = EmptyZSet,
        !.warn[deviceUUID] = NoKey]

---------------------------------------------------------------------------
(* internal/redis/push.go *)

\* RegisterPushForChat: [ok, rdb]; fails when the chat is gone or does not
\* name the participant.
RegisterPushForChat(db, t, chatUUID, participantID, fcmToken) ==
    LET chat == db.chat[chatUUID] IN
    IF ~chat.exists THEN [ok |-> FALSE, rdb |-> db]
    ELSE IF chat.participant_a # participantID /\ chat.participant_b # participantID
    THEN [ok |-> FALSE, rdb |-> db]
    ELSE [ok |-> TRUE,
          rdb |-> [db EXCEPT !.push[<<chatUUID, participantID>>] =
                     [exists |-> TRUE, token |-> fcmToken, exp |-> t + PushTTL]]]

DeletePushForChat(db, chatUUID, participantID) ==
    [db EXCEPT !.push[<<chatUUID, participantID>>] = NoKey]

\* KEYS push:*:<participantID>: the ID is used as a glob pattern, so "*"
\* matches the key of every participant.
GlobMatch(pattern, participantID) == pattern = "*" \/ pattern = participantID

\* DeleteAllPushForDevice: [deleted, rdb], one KEYS and DEL per listed ID.
RECURSIVE DeleteAllPushForDevice(_, _)
DeleteAllPushForDevice(db, participantIDs) ==
    IF participantIDs = <<>> THEN [deleted |-> 0, rdb |-> db]
    ELSE LET keys == {k \in DOMAIN db.push :
                         db.push[k].exists /\ GlobMatch(Head(participantIDs), k[2])}
             db1 == [db EXCEPT !.push = [k \in DOMAIN @ |->
                                           IF k \in keys THEN NoKey ELSE @[k]]]
             r == DeleteAllPushForDevice(db1, Tail(participantIDs))
         IN [deleted |-> Cardinality(keys) + r.deleted, rdb |-> r.rdb]

---------------------------------------------------------------------------
(* internal/websocket/hub.go *)

\* A handler runs on the machine state S = [rdb, hub, client, panic] and
\* returns the state it leaves behind.

\* int64 arithmetic on a word of 2 * WordHalf values: a difference wraps
\* around, and the negation of the least value is the least value.
Wrap(x) == ((x + WordHalf) % (2 * WordHalf)) - WordHalf

Abs(x) == IF x < 0 THEN Wrap(0 - x) ELSE x

\* time.Now().Unix()
UnixSec(t) == t \div 1000

\* h.chatParticipants[chatParticipantKey(chat, pid)]; NoDevice when absent.
Route(h, chatUUID, participantID) ==
    IF <<chatUUID, participantID>> \in DOMAIN h.chatParticipants
    THEN h.chatParticipants[<<chatUUID, participantID>>]
    ELSE NoDevice

\* The session a (chat, participant) pair is routed to: chatParticipants,
\* then clients. NoSession when either lookup misses.
Routed(h, chatUUID, participantID) ==
    IF Route(h, chatUUID, participantID) = NoDevice THEN NoSession
    ELSE h.clients[Route(h, chatUUID, participantID)]

\* A hub that never confirms a delivery.
sendNoConfirmation(S, chatUUID, messageID, senderParticipantID) == S

sendDeliveryConfirmation(S, chatUUID, messageID, senderParticipantID) ==
    IF S.panic THEN S
    ELSE LET senderClient == Routed(S.hub, chatUUID, senderParticipantID) IN
         IF senderClient = NoSession THEN S
         ELSE SendMessage(S, senderClient,
                          MsgFrame("message.delivered", chatUUID, messageID))

\* Hub.Run, case client := <-h.unregister.
RunUnregisterStep(S) ==
    LET s == Head(S.hub.unregister)
        dev == S.client[s].deviceUUID
        rest == [S EXCEPT !.hub.unregister = Tail(@)]
    IN IF s \notin S.hub.connections THEN rest
       ELSE [rest EXCEPT
               !.hub.connections = @ \ {s},
               !.hub.clients =
                   IF dev # "" THEN [@ EXCEPT ![dev] = NoSession] ELSE @,
               !.hub.chatParticipants =
                   IF dev # ""
                   THEN [k \in DOMAIN @ |-> IF @[k] = dev THEN NoDevice ELSE @[k]]
                   ELSE @,
               !.client[s].closed = TRUE]

\* Hub.DisconnectDevice. No handler of the server calls it.
DisconnectDevice(S, deviceUUID) ==
    LET s == S.hub.clients[deviceUUID] IN
    IF s = NoSession THEN S
    ELSE LET S1 == [S EXCEPT
                      !.hub.clients[deviceUUID] = NoSession,
                      !.hub.connections = @ \ {s},
                      !.hub.chatParticipants =
                          [k \in DOMAIN @ |->
                              IF @[k] = deviceUUID THEN NoDevice ELSE @[k]]]
             S2 == SendMessage(S1, s, ErrorFrame("device_purged"))
         IN IF S2.panic THEN S2
            ELSE IF S2.client[s].closed THEN [S2 EXCEPT !.panic = TRUE]
            ELSE [S2 EXCEPT !.client[s].closed = TRUE]

\* An auth that keeps the session a device is already mapped to.
handleAuthKeepFirst(S, t, s, p) ==
    LET db == S.rdb
        d == p.device_uuid
    IN
    IF IsBanned(db, d) THEN SendMessage(S, s, Banned(db.ban[d].reason))
    ELSE IF Abs(Wrap(UnixSec(t) - p.timestamp)) > AuthSkewSec
    THEN SendMessage(S, s, AuthFailed("timestamp_expired"))
    ELSE IF ~db.pubkey[d].exists
    THEN SendMessage(S, s, AuthFailed("device_not_found"))
    ELSE IF p.signature # computeSignature(db.pubkey[d].key, d, p.timestamp)
    THEN SendMessage(S, s, AuthFailed("invalid_signature"))
    ELSE IF ~IsSubscriptionActive(db, t, d)
    THEN SendMessage(S, s, Frame("subscription.expired"))
    ELSE SendMessage(
            [S EXCEPT !.client[s].deviceUUID = d,
                      !.client[s].authed = TRUE,
                      !.hub.clients[d] = IF @ = NoSession THEN s ELSE @],
            s, Frame("auth.success"))

handleAuth(S, t, s, p) ==
    LET db == S.rdb
        d == p.device_uuid
    IN
    IF IsBanned(db, d) THEN SendMessage(S, s, Banned(db.ban[d].reason))
    ELSE IF Abs(Wrap(UnixSec(t) - p.timestamp)) > AuthSkewSec
    THEN SendMessage(S, s, AuthFailed("timestamp_expired"))
    ELSE IF ~db.pubkey[d].exists
    THEN SendMessage(S, s, AuthFailed("device_not_found"))
    ELSE IF p.signature # computeSignature(db.pubkey[d].key, d, p.timestamp)
    THEN SendMessage(S, s, AuthFailed("invalid_signature"))
    ELSE IF ~IsSubscriptionActive(db, t, d)
    THEN SendMessage(S, s, Frame("subscription.expired"))
    ELSE SendMessage(
            [S EXCEPT !.client[s].deviceUUID = d,
                      !.client[s].authed = TRUE,
                      !.hub.clients[d] = s],
            s, Frame("auth.success"))

\* The first loop of handleChatRegister: the routing entries written for the
\* items that validate.
RegisterMappings(db, cp, chats, deviceUUID) ==
    [k \in DOMAIN cp |->
        IF \E i \in 1..Len(chats) :
              /\ k = <<chats[i].chat_uuid, chats[i].participant_id>>
              /\ ValidateParticipant(db, chats[i].chat_uuid, chats[i].participant_id,
                                     chats[i].participant_secret)
        THEN deviceUUID
        ELSE cp[k]]

NumValid(db, chats) ==
    Cardinality({i \in 1..Len(chats) :
        ValidateParticipant(db, chats[i].chat_uuid, chats[i].participant_id,
                            chats[i].participant_secret)})

\* The body of the inner drain loop for one queued message.
DrainOne(S, s, chatReg, msgID) ==
    LET q == S.rdb.msg[<<chatReg.chat_uuid, msgID>>]
        sent == SendMessage(S, s,
                    MessageReceived(chatReg.chat_uuid, msgID, q.sender_participant,
                                    q.sender_device_uuid, B64Encode(q.encrypted_content)))
    IN
    IF S.panic THEN S
    ELSE IF q.sender_participant = chatReg.participant_id THEN S
    ELSE IF SendOk(S, s)
    THEN sendDeliveryConfirmation(sent, chatReg.chat_uuid, msgID, q.sender_participant)
    ELSE sent

\* for msgID, queuedMsg := range messages, in the order the map yields.
RECURSIVE DrainMsgs(_, _, _, _)
DrainMsgs(S, s, chatReg, order) ==
    IF order = <<>> THEN S
    ELSE DrainMsgs(DrainOne(S, s, chatReg, Head(order)), s, chatReg, Tail(order))

\* The second loop of handleChatRegister, over every item of the payload;
\* orders[i] is the order in which the map of item i is ranged over.
RECURSIVE DrainChats(_, _, _, _, _)
DrainChats(S, s, chats, orders, i) ==
    IF i > Len(chats) THEN S
    ELSE DrainChats(DrainMsgs(S, s, chats[i], orders[i]), s, chats, orders, i + 1)

handleChatRegister(S, t, s, p, orders) ==
    IF ~S.client[s].authed THEN SendMessage(S, s, ErrorFrame("not_authenticated"))
    ELSE LET deviceUUID == S.client[s].deviceUUID
             registered == NumValid(S.rdb, p.chats)
             failed == Len(p.chats) - registered
             S1 == [S EXCEPT !.hub.chatParticipants =
                        RegisterMappings(S.rdb, @, p.chats, deviceUUID)]
             S2 == DrainChats(S1, s, p.chats, orders, 1)
         IN SendMessage(S2, s,
               [Frame("chat.register.ack") EXCEPT !.a = registered, !.b = failed])

\* The participant the sender's chat record names as the other one.
RecipientOf(chat, participantID) ==
    IF chat.participant_a = participantID THEN chat.participant_b
    ELSE chat.participant_a

\* The tail of handleMessageSend once the content passed the abuse checks:
\* direct delivery or queueing, then message.ack.
Relay(S, t, s, p, recipient) ==
    LET deviceUUID == S.client[s].deviceUUID
        ack == MsgFrame("message.ack", p.chat_uuid, p.message_id)
    IN
    IF recipient # NoSession
    THEN SendMessage(
            sendDeliveryConfirmation(
                SendMessage(S, recipient,
                    MessageReceived(p.chat_uuid, p.message_id, p.participant_id,
                                    deviceUUID, p.encrypted_content)),
                p.chat_uuid, p.message_id, p.participant_id),
            s, ack)
    ELSE SendMessage(
            [S EXCEPT !.rdb = QueueMessageWithDevice(@, t, p.chat_uuid, p.message_id,
                                  p.participant_id, deviceUUID,
                                  B64Decode(p.encrypted_content))],
            s, ack)

\* handleMessageSend from the size check on, the recipient's session having
\* been looked up in the routing table.
SendTail(S1, t, s, p, recipient) ==
    LET deviceUUID == S1.client[s].deviceUUID IN
    IF ~B64DecodeOk(p.encrypted_content)
       \/ ContentLen(B64Decode(p.encrypted_content)) > MaxContentLen
    THEN SendMessage(S1, s, ErrorFrame("message_too_large"))
    ELSE
    LET rec == RecordMessage(S1.rdb, t, deviceUUID,
                             sha256Hash(B64Decode(p.encrypted_content)))
        S3 == [S1 EXCEPT !.rdb = rec.rdb]
        ab == HandleAbuse(S3.rdb, t, deviceUUID, rec.err)
        S4 == [S3 EXCEPT !.rdb = ab.rdb]
    IN
    IF rec.err # "" /\ ab.action = "ban"
    THEN Unregister(SendMessage(S4, s, Banned("abuse")), s)
    ELSE Relay(IF rec.err # "" THEN S4 ELSE S3, t, s, p, recipient)

handleMessageSend(S, t, s, p) ==
    IF ~S.client[s].authed THEN SendMessage(S, s, ErrorFrame("not_authenticated"))
    ELSE
    LET deviceUUID == S.client[s].deviceUUID
        rl == CheckRateLimit(S.rdb, t, deviceUUID, RateLimitPerMinute)
        S1 == [S EXCEPT !.rdb = rl.rdb]
    IN
    IF ~rl.allowed
    THEN LET ab == HandleAbuse(S1.rdb, t, deviceUUID, "rate_limit_exceeded")
             S2 == [S1 EXCEPT !.rdb = ab.rdb]
         IN IF ab.action = "ban"
            THEN Unregister(SendMessage(S2, s, Banned("rate_limit_abuse")), s)
            ELSE SendMessage(S2, s,
                    [Frame("rate_limit.warning") EXCEPT
                        !.a = rl.count, !.b = RateLimitPerMinute])
    ELSE IF ~ValidateParticipant(S1.rdb, p.chat_uuid, p.participant_id, p.participant_secret)
    THEN SendMessage(S1, s, ErrorFrame("invalid_credentials"))
    ELSE
    LET chat == S1.rdb.chat[p.chat_uuid]
        recipient == Routed(S1.hub, p.chat_uuid, RecipientOf(chat, p.participant_id))
    IN SendTail(S1, t, s, p, recipient)

\* The participant IDs handleMessageRead may take for "ours": the loop over
\* chatParticipants keeps the suffix of the last entry of this device it
\* meets, whatever chat that entry belongs to; "" when there is none.
OurCandidates(h, deviceUUID) ==
    IF deviceUUID # "" /\ \E k \in DOMAIN h.chatParticipants : h.chatParticipants[k] = deviceUUID
    THEN {k[2] : k \in {kk \in DOMAIN h.chatParticipants :
                            h.chatParticipants[kk] = deviceUUID}}
    ELSE {""}

\* A message.read handler that does not look at the session's authentication.
handleMessageReadOpen(S, t, s, p, our) ==
    LET S1 == [S EXCEPT !.rdb = DeleteQueuedMessage(@, p.chat_uuid, p.message_id)]
        chat == S1.rdb.chat[p.chat_uuid]
        other == Routed(S1.hub, p.chat_uuid, RecipientOf(chat, our))
    IN
    IF ~chat.exists THEN S1
    ELSE IF other # NoSession
    THEN SendMessage(S1, other, MsgFrame("message.read.ack", p.chat_uuid, p.message_id))
    ELSE S1

handleMessageRead(S, t, s, p, our) ==
    IF ~S.client[s].authed THEN S
    ELSE
    LET S1 == [S EXCEPT !.rdb = DeleteQueuedMessage(@, p.chat_uuid, p.message_id)]
        chat == S1.rdb.chat[p.chat_uuid]
        other == Routed(S1.hub, p.chat_uuid, RecipientOf(chat, our))
    IN
    IF ~chat.exists THEN S1
    ELSE IF other # NoSession
    THEN SendMessage(S1, other, MsgFrame("message.read.ack", p.chat_uuid, p.message_id))
    ELSE S1

\* handleTyping: typing.start and typing.stop.
handleTyping(S, t, s, p) ==
    IF ~S.client[s].authed THEN S
    ELSE IF ~ValidateParticipant(S.rdb, p.chat_uuid, p.participant_id, p.participant_secret)
    THEN S
    ELSE LET chat == S.rdb.chat[p.chat_uuid]
             other == Routed(S.hub, p.chat_uuid, RecipientOf(chat, p.participant_id))
         IN IF other # NoSession
            THEN SendMessage(S, other, [Frame("typing.indicator") EXCEPT
                                           !.chat_uuid = p.chat_uuid])
            ELSE S

\* handlePushRegister: authorised by the credentials of the payload; the ack
\* goes out only on an authenticated session, a = 1 for success.
handlePushRegister(S, t, s, p) ==
    IF p.participant_id = "" \/ p.participant_secret = "" THEN S
    ELSE IF ~ValidateParticipant(S.rdb, p.chat_uuid, p.participant_id, p.participant_secret)
    THEN S
    ELSE LET r == RegisterPushForChat(S.rdb, t, p.chat_uuid, p.participant_id, p.fcm_token)
             S1 == [S EXCEPT !.rdb = r.rdb]
         IN IF S.client[s].authed
            THEN SendMessage(S1, s, [Frame("push.register.ack") EXCEPT
                                        !.chat_uuid = p.chat_uuid,
                                        !.a = IF r.ok THEN 1 ELSE 0])
            ELSE S1

handlePushUnregister(S, t, s, p) ==
    IF p.participant_id = "" \/ p.participant_secret = "" THEN S
    ELSE IF ~ValidateParticipant(S.rdb, p.chat_uuid, p.participant_id, p.participant_secret)
    THEN S
    ELSE LET S1 == [S EXCEPT !.rdb = DeletePushForChat(@, p.chat_uuid, p.participant_id)]
         IN IF S.client[s].authed
            THEN SendMessage(S1, s, [Frame("push.unregister.ack") EXCEPT
                                        !.chat_uuid = p.chat_uuid, !.a = 1])
            ELSE S1

handlePushBurnAll(S, t, s, p) ==
    IF ~S.client[s].authed THEN S
    ELSE LET r == DeleteAllPushForDevice(S.rdb, p.participant_ids)
         IN SendMessage([S EXCEPT !.rdb = r.rdb], s,
                        [Frame("push.burn_all.ack") EXCEPT !.a = r.deleted])

\* Hub.HandleMessage: the switch on the frame's type.
HandleMessage(S, t, s, type, p, orders, our) ==
    CASE type = "auth" -> handleAuth(S, t, s, p)
      [] type = "chat.register" -> handleChatRegister(S, t, s, p, orders)
      [] type = "message.send" -> handleMessageSend(S, t, s, p)
      [] type = "message.read" -> handleMessageRead(S, t, s, p, our)
      [] type \in {"typing.start", "typing.stop"} -> handleTyping(S, t, s, p)
      [] type = "push.register" -> handlePushRegister(S, t, s, p)
      [] type = "push.unregister" -> handlePushUnregister(S, t, s, p)
      [] type = "push.burn_all" -> handlePushBurnAll(S, t, s, p)
      [] type = "ping" -> S
      [] OTHER -> SendMessage(S, s, ErrorFrame("unknown_type"))

---------------------------------------------------------------------------
(* internal/redis/subscription.go: activation and restore *)

PublicKeyOf(deviceUUID) == <<"pk", deviceUUID>>

\* SetSubscription: the key lives until the subscription expires (one hour
\* when that moment is already past).
SetSubscription(db, t, deviceUUID, expiresAt) ==
    [db EXCEPT !.sub[deviceUUID] =
        [exists |-> TRUE, status |-> "active", expires_at |-> expiresAt,
         exp |-> IF expiresAt - t <= 0 THEN t + SubFallbackTTL ELSE expiresAt]]

\* ClaimActivationCode for a one-day plan: [ok, rdb].
ClaimActivationCode(db, t, code, deviceUUID, publicKey) ==
    LET ac == db.code[code]
        sub == db.sub[deviceUUID]
        expiresAt == IF sub.exists /\ sub.status = "active" /\ sub.expires_at > t
                     THEN sub.expires_at + DayPlan
                     ELSE t + DayPlan
    IN IF ~ac.exists \/ ac.status # "pending" THEN [ok |-> FALSE, rdb |-> db]
       ELSE [ok |-> TRUE,
             rdb |-> [SetSubscription(db, t, deviceUUID, expiresAt) EXCEPT
                        !.pubkey[deviceUUID] =
                            [exists |-> TRUE, key |-> publicKey, exp |-> NoExpiry],
                        !.code[code] =
                            [exists |-> TRUE, status |-> "used", exp |-> t + CodeUsedTTL]]]

\* RestoreSubscription (store): an active subscription is returned as it is.
RestoreSubscription(db, t, deviceUUID, publicKey, expiresAt) ==
    IF db.sub[deviceUUID].exists /\ db.sub[deviceUUID].status = "active" THEN db
    ELSE [SetSubscription(db, t, deviceUUID, expiresAt) EXCEPT
            !.pubkey[deviceUUID] =
                [exists |-> TRUE, key |-> publicKey, exp |-> NoExpiry]]

\* CreateActivationCode: a pending code (the webhook's write).
PendingCodes(db) ==
    [db EXCEPT !.code = [k \in Codes |-> [exists |-> TRUE, status |-> "pending",
                                          exp |-> NoExpiry]]]

---------------------------------------------------------------------------
(* internal/api: the HTTP side *)

\* Middleware.DeviceAuth: the status it aborts with, 200 when it calls Next.
DeviceAuth(db, t, p) ==
    LET d == p.device_uuid IN
    IF Abs(Wrap(UnixSec(t) - p.timestamp)) > AuthSkewSec THEN 401
    ELSE IF IsBanned(db, d) THEN 403
    ELSE IF ~db.pubkey[d].exists THEN 401
    ELSE IF p.signature # computeSignature(db.pubkey[d].key, d, p.timestamp) THEN 401
    ELSE IF ~IsSubscriptionActive(db, t, d) THEN 402
    ELSE 200

\* DELETE /device/purge through DeviceAuth and RateLimit: [status, S].
httpPurgeDevice(S, t, p) ==
    LET st == DeviceAuth(S.rdb, t, p)
        rl == CheckRateLimit(S.rdb, t, p.device_uuid, RateLimitPerMinute)
    IN IF st # 200 THEN [status |-> st, S |-> S]
       ELSE IF ~rl.allowed THEN [status |-> 429, S |-> [S EXCEPT !.rdb = rl.rdb]]
       ELSE [status |-> 200,
             S |-> [S EXCEPT !.rdb = PurgeDevice(rl.rdb, p.device_uuid)]]

---------------------------------------------------------------------------
(* The state machine *)

\* The goroutines of the process: one ReadPump per session, and Hub.Run.
Goroutines == Sessions \cup {"run"}

NoHolder == ""

\* sync.RWMutex, zero value.
NewMutex == [writer |-> NoHolder, readers |-> {}]

\* A goroutine between two dispatches: ReadPump in conn.ReadMessage, Hub.Run
\* in its select.
Waiting == [at |-> "idle"]

Cur == [rdb |-> rdb, hub |-> hub, client |-> client, panic |-> panicked]

\* The step of a goroutine that leaves the machine in state S, the routing
\* keys having been written by the sessions rb.
StepReg(S, l, n, rb) ==
    /\ rdb' = S.rdb
    /\ hub' = S.hub
    /\ client' = S.client
    /\ panicked' = S.panic
    /\ last' = l
    /\ nframes' = nframes + n
    /\ UNCHANGED <<now, ticks, joinRes, fetch, mu, pc>>
    /\ regBy' = rb

Step(S, l, n) == StepReg(S, l, n, regBy)

\* The orders in which a Go map with key set K may be ranged over.
Perms(K) ==
    {f \in [1..Cardinality(K) -> K] :
        \A i, j \in 1..Cardinality(K) : i # j => f[i] # f[j]}

Orders(db, chats) ==
    IF chats = <<>> THEN {<<>>}
    ELSE [1..Len(chats) -> UNION {Perms(QueuedIds(db, c)) : c \in Chats}]

\* ReadPump hands one inbound frame to HandleMessage.
Auth(s, p) ==
    /\ ~panicked /\ client[s].reading
    /\ Step(handleAuth(Cur, now, s, p), [op |-> "auth", s |-> s, p |-> p], 1)

ChatRegister(s, p) ==
    /\ ~panicked /\ client[s].reading
    /\ \E orders \in Orders(rdb, p.chats) :
         /\ \A i \in 1..Len(p.chats) :
               orders[i] \in Perms(QueuedIds(rdb, p.chats[i].chat_uuid))
         /\ StepReg(handleChatRegister(Cur, now, s, p, orders),
                    [op |-> "chat.register", s |-> s, p |-> p], 1,
                    [k \in DOMAIN regBy |->
                        IF /\ client[s].authed
                           /\ \E i \in 1..Len(p.chats) :
                                 /\ k = <<p.chats[i].chat_uuid, p.chats[i].participant_id>>
                                 /\ ValidateParticipant(rdb, k[1], k[2],
                                                        p.chats[i].participant_secret)
                        THEN s ELSE regBy[k]])

\* ReadPump reads a message.send frame: conn.ReadMessage fails on a frame
\* longer than the read limit and ReadPump returns (h.unregister <- c);
\* otherwise the frame is handed to handleMessageSend.
MessageSend(s, p) ==
    /\ ~panicked /\ client[s].reading
    /\ IF FrameLen(p) > maxMessageSize
       THEN Step([Cur EXCEPT !.client[s].reading = FALSE,
                             !.hub.unregister = Append(@, s)],
                 [op |-> "message.send", s |-> s, p |-> p], 1)
       ELSE Step(handleMessageSend(Cur, now, s, p),
                 [op |-> "message.send", s |-> s, p |-> p], 1)

MessageRead(s, p) ==
    /\ ~panicked /\ client[s].reading
    /\ \E our \in OurCandidates(hub, client[s].deviceUUID) :
         Step(handleMessageRead(Cur, now, s, p, our),
              [op |-> "message.read", s |-> s, p |-> p], 1)

\* ReadPump hands HandleMessage a frame of one of the other types.
Inbound(s, type, p) ==
    /\ ~panicked /\ client[s].reading
    /\ type \notin {"auth", "chat.register", "message.send", "message.read"}
    /\ Step(HandleMessage(Cur, now, s, type, p, <<>>, ""),
            [op |-> type, s |-> s, p |-> p], 1)

\* Client.WritePump takes the oldest frame of the channel and writes it.
WritePump(s) ==
    /\ ~panicked /\ client[s].taken < Len(client[s].send)
    /\ Step([Cur EXCEPT !.client[s].taken = @ + 1],
            [op |-> "write", s |-> s, p |-> <<>>], 0)

\* ReadPump returns (peer closed, read error, or the connection was closed
\* by WritePump): h.unregister <- c.
Disconnect(s) ==
    /\ ~panicked /\ client[s].reading
    /\ Step([Cur EXCEPT !.client[s].reading = FALSE,
                        !.hub.unregister = Append(@, s)],
            [op |-> "disconnect", s |-> s, p |-> <<>>], 0)

RunUnregister ==
    /\ ~panicked /\ hub.unregister # <<>>
    /\ Step(RunUnregisterStep(Cur),
            [op |-> "run.unregister", s |-> Head(hub.unregister), p |-> <<>>], 0)

HttpPurgeDevice(p) ==
    /\ ~panicked
    /\ LET r == httpPurgeDevice(Cur, now, p) IN
       Step(r.S, [op |-> "purge", s |-> NoSession, p |-> p, status |-> r.status], 1)

HttpClaimActivationCode(code, deviceUUID, publicKey) ==
    /\ ~panicked
    /\ Step([Cur EXCEPT !.rdb = ClaimActivationCode(@, now, code, deviceUUID, publicKey).rdb],
            [op |-> "claim", s |-> NoSession, p |-> <<code, deviceUUID>>], 1)

\* POST /subscription/restore, the Stripe session being paid and its plan
\* running until expiresAt.
HttpRestoreSubscription(deviceUUID, publicKey, expiresAt) ==
    /\ ~panicked
    /\ ~IsSubscriptionActive(rdb, now, deviceUUID)
    /\ expiresAt >= now
    /\ Step([Cur EXCEPT !.rdb = RestoreSubscription(@, now, deviceUUID, publicKey, expiresAt)],
            [op |-> "restore", s |-> NoSession, p |-> <<deviceUUID>>], 1)

\* The clock advances by delta ms; keys whose TTL ran out are gone.
Tick(delta) ==
    /\ now' = now + delta
    /\ ticks' = ticks + 1
    /\ rdb' = Sweep(rdb, now + delta)
    /\ last' = [op |-> "tick", s |-> NoSession, p |-> [delta |-> delta]]
    /\ UNCHANGED <<hub, client, panicked, nframes, joinRes, fetch, regBy, mu, pc>>

---------------------------------------------------------------------------
(* Initial states *)

\* NewHub, and Run having registered one connection per session.
NewHub ==
    [clients |-> [d \in Devices |-> NoSession],
     connections |-> Sessions,
     chatParticipants |-> [k \in Chats \X Pids |-> NoDevice],
     unregister |-> <<>>]

NoCall == [done |-> FALSE]
NoFetch == [pc |-> "idle", got |-> NoPreKey]
NoOp == [op |-> "", s |-> NoSession, p |-> <<>>]

\* The store at time 0: devices dA, dB, dC activated with codes k1..k3,
\* chat c1 created by dA as pA and joined by dB as pB with token t1.
BaseDb ==
    LET d0 == PendingCodes(EmptyDb)
        d1 == ClaimActivationCode(d0, 0, "k1", "dA", PublicKeyOf("dA")).rdb
        d2 == ClaimActivationCode(d1, 0, "k2", "dB", PublicKeyOf("dB")).rdb
        d3 == ClaimActivationCode(d2, 0, "k3", "dC", PublicKeyOf("dC")).rdb
        d4 == CreateChat(d3, 0, "c1", "pA", "sA", "dA", "t1")
    IN JoinScript(d4, 0, "t1", "dB", "pB", HashSecret("sB")).rdb

\* A correctly signed auth payload of the device, stamped with the second ts.
AuthPayload(deviceUUID, ts) ==
    [device_uuid |-> deviceUUID,
     signature |-> computeSignature(PublicKeyOf(deviceUUID), deviceUUID, ts),
     timestamp |-> ts]

ChatReg(chatUUID, participantID, secret) ==
    [chat_uuid |-> chatUUID, participant_id |-> participantID,
     participant_secret |-> secret]

SendPayload(chatUUID, messageID, content, participantID, secret) ==
    [chat_uuid |-> chatUUID, message_id |-> messageID, encrypted_content |-> content,
     participant_id |-> participantID, participant_secret |-> secret]

ReadPayload(chatUUID, messageID) == [chat_uuid |-> chatUUID, message_id |-> messageID]

TypingPayload(chatUUID, participantID, secret) ==
    [chat_uuid |-> chatUUID, participant_id |-> participantID,
     participant_secret |-> secret]

PushRegisterPayload(chatUUID, participantID, secret, fcmToken) ==
    [chat_uuid |-> chatUUID, participant_id |-> participantID,
     participant_secret |-> secret, fcm_token |-> fcmToken]

PushBurnAllPayload(participantIDs) == [participant_ids |-> participantIDs]

\* Session s1 authenticated as dA and registered as (c1, pA); s2 just opened.
AliceOnline ==
    LET S0 == [rdb |-> BaseDb, hub |-> NewHub,
               client |-> [s \in Sessions |-> NewClient], panic |-> FALSE]
        S1 == handleAuth(S0, 0, "s1", AuthPayload("dA", 0))
    IN handleChatRegister(S1, 0, "s1", [chats |-> <<ChatReg("c1", "pA", "sA")>>],
                          <<<<>>>>)

InitAt(S, t) ==
    /\ now = t /\ ticks = 0 /\ nframes = 0
    /\ rdb = S.rdb /\ hub = S.hub /\ client = S.client /\ panicked = S.panic
    /\ last = NoOp
    /\ joinRes = [c \in Callers |-> NoCall]
    /\ fetch = [f \in Fetchers |-> NoFetch]
    /\ regBy = [k \in DOMAIN S.hub.chatParticipants |->
                  IF S.hub.chatParticipants[k] = NoDevice THEN NoSession
                  ELSE S.hub.clients[S.hub.chatParticipants[k]]]
    /\ mu = NewMutex
    /\ pc = [g \in Goroutines |-> Waiting]

InitFrom(S) == InitAt(S, 0)

---------------------------------------------------------------------------
(* Concurrent JoinChat calls on one invitation *)

\* One JoinChat call: the script runs atomically in Redis.
JoinChat(c, token, joinerDevice, participantID, secret) ==
    /\ ~joinRes[c].done
    /\ LET r == JoinScript(rdb, now, token, joinerDevice, participantID,
                           HashSecret(secret))
       IN /\ rdb' = r.rdb
          /\ joinRes' = [joinRes EXCEPT ![c] =
                [done |-> TRUE, participant_id |-> participantID, code |-> r.code,
                 err |-> JoinError(r.code), at |-> now]]
    /\ last' = [op |-> "join", s |-> NoSession, p |-> <<c, participantID, token>>]
    /\ UNCHANGED <<now, ticks, hub, client, panicked, nframes, fetch, regBy, mu, pc>>

\* Chat c1 created by dA as pA at time 0, invitation t1 outstanding.
InitJoin ==
    InitFrom([rdb |-> CreateChat(EmptyDb, 0, "c1", "pA", "sA", "dA", "t1"),
              hub |-> NewHub,
              client |-> [s \in Sessions |-> NewClient],
              panic |-> FALSE])

NextJoin ==
    \/ \E c \in Callers, d \in {"dB", "dC"}, pid \in Pids :
          JoinChat(c, "t1", d, pid, "sB")
    \/ /\ ticks < MaxTicksJ
       /\ \E delta \in {1, InviteUsedTTL, ChatKeyTTL} : Tick(delta)

SpecJoin == InitJoin /\ [][NextJoin]_vars

Successes == {c \in Callers : joinRes[c].done /\ joinRes[c].code = 1}

\* C1: of the JoinChat calls made on one invitation token, in whatever order
\* the store serialises them, at most one returns success; when every call
\* has returned, every caller used a participant ID other than the creator's
\* and a call was made while the invitation was still stored, exactly one
\* call succeeded and each of the others returned "invitation already
\* used", "invitation not found" or "chat is not pending".
C1_OneJoinWins ==
    /\ Cardinality(Successes) <= 1
    /\ (/\ \A c \in Callers : joinRes[c].done /\ joinRes[c].participant_id # "pA"
        /\ \E c \in Callers : joinRes[c].at < ChatKeyTTL)
       => /\ Cardinality(Successes) = 1
          /\ \A c \in Callers \ Successes :
                joinRes[c].err \in {"invitation already used", "invitation not found",
                                    "chat is not pending"}

\* Every caller has returned, none used the creator's ID, one succeeded and
\* another was told the invitation is used.
C1_Witness ==
    /\ \A c \in Callers : joinRes[c].done /\ joinRes[c].participant_id # "pA"
    /\ Cardinality(Successes) = 1
    /\ \E c \in Callers : joinRes[c].err = "invitation already used"
    /\ Cardinality(Callers) >= 3

---------------------------------------------------------------------------
(* Concurrent key-bundle fetches for one device *)

\* GetKeyBundle up to its GET of keybundle:<device>: nil, nil when missing.
GetKeyBundleGet(f, deviceUUID) ==
    /\ fetch[f].pc = "idle"
    /\ fetch' = [fetch EXCEPT ![f].pc =
                    IF rdb.keybundle[deviceUUID].exists THEN "bundle" ELSE "done"]
    /\ last' = [op |-> "bundle.get", s |-> NoSession, p |-> <<f>>]
    /\ UNCHANGED <<now, ticks, rdb, hub, client, panicked, nframes, joinRes, regBy,
                   mu, pc>>

\* ConsumePreKey, called by GetKeyBundle after its GET or on its own: the
\* script takes the field HKEYS lists first, which may be any of them.
ConsumePreKey(f, deviceUUID) ==
    /\ fetch[f].pc \in {"idle", "bundle"}
    /\ IF HKeys(rdb, deviceUUID) = {}
       THEN /\ fetch' = [fetch EXCEPT ![f] = [pc |-> "done", got |-> NoPreKey]]
            /\ rdb' = rdb
       ELSE \E id \in HKeys(rdb, deviceUUID) :
              LET r == ConsumeScript(rdb, deviceUUID, id) IN
              /\ fetch' = [fetch EXCEPT ![f] = [pc |-> "done", got |-> r.data]]
              /\ rdb' = r.rdb
    /\ last' = [op |-> "prekey.consume", s |-> NoSession, p |-> <<f>>]
    /\ UNCHANGED <<now, ticks, hub, client, panicked, nframes, joinRes, regBy, mu, pc>>

\* Device dA has stored a bundle with the prekeys P, for any set P.
InitConsume ==
    \E P \in SUBSET PreKeyIds :
        InitFrom([rdb |-> StoreKeyBundle(EmptyDb, 0, "dA", P),
                  hub |-> NewHub,
                  client |-> [s \in Sessions |-> NewClient],
                  panic |-> FALSE])

NextConsume ==
    \/ \E f \in Fetchers : GetKeyBundleGet(f, "dA")
    \/ \E f \in Fetchers : ConsumePreKey(f, "dA")

SpecConsume == InitConsume /\ [][NextConsume]_vars

Got(f) == fetch[f].pc = "done" /\ fetch[f].got # NoPreKey

\* C2: whatever the interleaving of GetKeyBundle and ConsumePreKey calls for
\* one device, no two calls return the same prekey, and a prekey a call has
\* returned is no longer a field of the device's prekey hash.
C2_PreKeyConsumedOnce ==
    /\ \A f, g \in Fetchers : (f # g /\ Got(f) /\ Got(g)) => fetch[f].got # fetch[g].got
    /\ \A f \in Fetchers : Got(f) => fetch[f].got.id \notin HKeys(rdb, "dA")

\* Two calls returned prekeys, a third found the hash with a prekey left.
C2_Witness ==
    /\ \E f, g \in Fetchers : f # g /\ Got(f) /\ Got(g)
    /\ HKeys(rdb, "dA") # {}

---------------------------------------------------------------------------
(* Store and forward: dA's session s1 sends to pB while s2 comes online *)

GoodItem == ChatReg("c1", "pB", "sB")
BadItem == ChatReg("c1", "pX", "bad")

RegPayloadsQ ==
    {[chats |-> c] : c \in {<<GoodItem>>, <<BadItem>>, <<GoodItem, GoodItem>>,
                            <<BadItem, GoodItem>>}}

NextQueue ==
    \/ /\ nframes < MaxFramesQ
       /\ \E m \in Mids, e \in {B64Encode("x"), [enc |-> "alt", bytes |-> "y"]} :
             MessageSend("s1", SendPayload("c1", m, e, "pA", "sA"))
    \/ /\ nframes < MaxFramesQ
       /\ \E d \in {"dB", "dC"} : Auth("s2", AuthPayload(d, UnixSec(now)))
    \/ /\ nframes < MaxFramesQ
       /\ \E p \in RegPayloadsQ : ChatRegister("s2", p)
    \/ /\ nframes < MaxFramesQ
       /\ \E s \in Sessions, m \in Mids : MessageRead(s, ReadPayload("c1", m))
    \/ /\ ticks < MaxTicksQ
       /\ Tick(MaxChatTTL)

SpecQueue == InitFrom(AliceOnline) /\ [][NextQueue]_vars

---------------------------------------------------------------------------
(* Properties of the queue drain and of read receipts *)

\* The frames the step put on the channel of session s.
Put(s) == SubSeq(client'[s].send, Len(client[s].send) + 1, Len(client'[s].send))

FramesOf(frames, type, chatUUID) ==
    SelectSeq(frames, LAMBDA f : f.type = type /\ f.chat_uuid = chatUUID)

FramesFor(frames, type, chatUUID, messageID) ==
    SelectSeq(frames, LAMBDA f : /\ f.type = type /\ f.chat_uuid = chatUUID
                                 /\ f.message_id = messageID)

MessageIds(frames) == [i \in 1..Len(frames) |-> frames[i].message_id]

\* No channel is full after the step: no frame of the step was dropped.
NoneDropped == \A x \in Sessions : Buffered(client'[x]) < SendBuffer

\* The step dispatched a chat.register of an authenticated session and ran
\* to its end.
RegisterStep ==
    /\ last'.op = "chat.register"
    /\ client[last'.s].authed
    /\ ~panicked'

AllValid(db, chats) == chats # <<>> /\ NumValid(db, chats) = Len(chats)

\* The stored queue entries of the chat a register payload does not claim
\* as sent by the registering participant.
PeerIds(db, chatUUID, chats) ==
    {m \in QueuedIds(db, chatUUID) :
        \A i \in 1..Len(chats) :
            chats[i].participant_id # db.msg[<<chatUUID, m>>].sender_participant}

ItemsFor(chats, chatUUID) == {i \in 1..Len(chats) : chats[i].chat_uuid = chatUUID}

\* C3: a chat.register with one valid item for a chat whose queue list holds
\* several distinct message IDs puts the message.received frames of the peer's
\* messages on the registering session's channel in the order of the list.
C3_DrainInEnqueueOrder ==
    [][(/\ RegisterStep
        /\ Len(last'.p.chats) = 1
        /\ AllValid(rdb, last'.p.chats)
        /\ rdb.msg_queue["c1"].ids = Dedup(rdb.msg_queue["c1"].ids))
       => MessageIds(FramesOf(Put(last'.s), "message.received", "c1"))
            = SelectSeq(rdb.msg_queue["c1"].ids,
                        LAMBDA m : m \in PeerIds(rdb, "c1", last'.p.chats))]_vars

C5_SecondReadNoOp ==
    [][(/\ last'.op = "message.read" /\ last.op = "message.read"
        /\ last'.p = last.p /\ last'.s = last.s
        /\ client[last'.s].authed
        /\ Routed(hub, "c1", "pB") = last'.s
        /\ ~panicked')
       => /\ rdb' = rdb
          /\ \A x \in Sessions : Put(x) = <<>>]_vars

\* C10: a chat.register none of whose items for a chat validates puts no
\* message.received of that chat on the session's channel and no
\* message.delivered of that chat on any channel.
C10_DrainOnlyValidated ==
    [][(RegisterStep /\ NumValid(rdb, last'.p.chats) = 0)
       => /\ FramesOf(Put(last'.s), "message.received", "c1") = <<>>
          /\ \A x \in Sessions : FramesOf(Put(x), "message.delivered", "c1") = <<>>]_vars

---------------------------------------------------------------------------
(* Rate limiting and escalation: dA's session s1 keeps sending *)

NextRate ==
    \/ /\ nframes < MaxFramesR
       /\ \E m \in Mids : MessageSend("s1", SendPayload("c1", m, B64Encode("x"), "pA", "sA"))
    \/ /\ ticks < MaxTicksR
       /\ \E delta \in {1, RateLimitWindow, WarningExpiry} : Tick(delta)
    \/ RunUnregister

SpecRate == InitFrom(AliceOnline) /\ [][NextRate]_vars

\* The events of the device's window that are younger than 60 s.
InWindow(db, t, deviceUUID) ==
    {m \in db.rate[deviceUUID].members : m > t - RateLimitWindow}

\* The step dispatched a message.send of an authenticated session of device d
\* and ran to its end without dropping a frame.
SendStep(d) ==
    /\ last'.op = "message.send"
    /\ client[last'.s].authed
    /\ client[last'.s].deviceUUID = d
    /\ ~panicked'
    /\ NoneDropped

\* The step relayed nothing: no message.received and no message.ack was put
\* on a channel and the queue is as it was.
NothingRelayed ==
    /\ \A x \in Sessions :
          \A i \in 1..Len(Put(x)) :
              Put(x)[i].type \notin {"message.received", "message.ack", "message.delivered"}
    /\ rdb'.msg = rdb.msg
    /\ rdb'.msg_queue = rdb.msg_queue

\* C8: a message.send of device d that finds the limit L of events in the
\* 60 s window is denied. With no warning record and no ban, the session gets
\* rate_limit.warning{current: L, limit: L}, a warning record living 24 h is
\* written, and the session stays authenticated, connected and routed. With
\* a live warning record the session gets banned{rate_limit_abuse}, the ban
\* record is written without expiry, warn:<d> and rate:<d> are deleted and
\* the session is handed to Hub.Run for unregistration; a banned device gets
\* banned as well. Hub.Run, taking a connected session from the unregister
\* channel, removes it from the connections and the routing tables and closes
\* its channel.
C8_WarningThenBan ==
    [][/\ \A d \in Devices :
            (SendStep(d) /\ Cardinality(InWindow(rdb, now, d)) >= RateLimitPerMinute)
            => LET s == last'.s IN
               IF ~rdb.ban[d].exists /\ ~rdb.warn[d].exists
               THEN /\ Put(s) = <<[Frame("rate_limit.warning") EXCEPT
                                      !.a = RateLimitPerMinute, !.b = RateLimitPerMinute]>>
                    /\ rdb'.warn[d].exists /\ rdb'.warn[d].count = 1
                    /\ rdb'.warn[d].exp = now + WarningExpiry
                    /\ ~rdb'.ban[d].exists
                    /\ client'[s].authed /\ ~client'[s].closed
                    /\ hub' = hub
               ELSE /\ Put(s) = <<Banned("rate_limit_abuse")>>
                    /\ rdb'.ban[d].exists /\ rdb'.ban[d].exp = NoExpiry
                    /\ ~rdb'.warn[d].exists
                    /\ ~rdb.ban[d].exists => rdb'.rate[d] = EmptyZSet
                    /\ rdb.ban[d].exists => rdb'.ban[d] = rdb.ban[d]
                    /\ hub'.unregister = Append(hub.unregister, s)
       /\ (last'.op = "run.unregister" /\ last'.s \in hub.connections)
          => LET s == last'.s IN
             /\ s \notin hub'.connections
             /\ client'[s].closed
             /\ client[s].deviceUUID # "" =>
                  /\ hub'.clients[client[s].deviceUUID] = NoSession
                  /\ \A k \in DOMAIN hub'.chatParticipants :
                        hub'.chatParticipants[k] # client[s].deviceUUID]_vars

\* dA was warned, then banned for rate_limit_abuse within the 24 h, and
\* Hub.Run has closed its session.
C8_Witness ==
    /\ last.op = "run.unregister" /\ last.s = "s1"
    /\ client["s1"].closed
    /\ rdb.ban["dA"].exists
    /\ \E i \in 1..Len(client["s1"].send) : client["s1"].send[i].type = "rate_limit.warning"
    /\ client["s1"].send[Len(client["s1"].send)] = Banned("rate_limit_abuse")

\* C9: s1 is the only session of dA and its window is empty at time 0. Of the
\* message.send frames it dispatches before 60 s have passed, each of the
\* first L passes the rate limit and the (L+1)-th is denied: the session gets
\* rate_limit.warning or banned, nothing is relayed, queued or acked, and the
\* window gains no event.
C9_LimitThenDeny ==
    [][(SendStep("dA") /\ now < RateLimitWindow)
       => LET s == last'.s
              denied == /\ Len(Put(s)) = 1
                        /\ Put(s)[1].type \in {"rate_limit.warning", "banned"}
          IN /\ nframes < RateLimitPerMinute => ~denied
             /\ nframes = RateLimitPerMinute =>
                  /\ denied
                  /\ NothingRelayed
                  /\ rdb'.rate["dA"].members = rdb.rate["dA"].members]_vars

---------------------------------------------------------------------------
(* The whole server: sessions, HTTP requests and the clock *)

\* dA, online on s1, has sent L messages within 2 ms and a further one,
\* which was denied: its window is full and its warning record is live.
AliceWarned ==
    LET p(m) == SendPayload("c1", m, B64Encode("x"), "pA", "sA")
        S1 == handleMessageSend(AliceOnline, 0, "s1", p("m1"))
        S2 == handleMessageSend(S1, 1, "s1", p("m2"))
    IN handleMessageSend(S2, 1, "s1", p("m1"))

Init == InitAt(AliceWarned, 1)

Next ==
    \/ /\ nframes < MaxFramesH
       /\ \E d \in {"dA", "dB"} : Auth("s2", AuthPayload(d, UnixSec(now)))
    \/ /\ nframes < MaxFramesH
       /\ ChatRegister("s2", [chats |-> <<GoodItem>>])
    \/ /\ nframes < MaxFramesH
       /\ \/ MessageSend("s1", SendPayload("c1", "m1", B64Encode("x"), "pA", "sA"))
          \/ MessageSend("s2", SendPayload("c1", "m2", B64Encode("y"), "pB", "sB"))
    \/ /\ nframes < MaxFramesH
       /\ HttpPurgeDevice(AuthPayload("dA", UnixSec(now)))
    \/ /\ nframes < MaxFramesH
       /\ HttpClaimActivationCode("k4", "dA", PublicKeyOf("dA"))
    \/ /\ nframes < MaxFramesH
       /\ HttpRestoreSubscription("dA", PublicKeyOf("dA"), now + DayPlan)
    \/ /\ ticks < MaxTicksH
       /\ \E delta \in {1, RateLimitWindow, WarningExpiry} : Tick(delta)
    \/ \E s \in Sessions : Disconnect(s)
    \/ RunUnregister

Spec == Init /\ [][Next]_vars

\* C6: a DELETE /device/purge that succeeds for a device D with a live
\* authenticated session puts error{device_purged} on that session's channel
\* and closes it, and leaves no device->session entry for D and no
\* (chat, participant)->device entry mapping to D.
C6_PurgeDisconnects ==
    [][\A d \in Devices :
        (/\ last'.op = "purge" /\ last'.status = 200 /\ last'.p.device_uuid = d
         /\ hub.clients[d] # NoSession
         /\ client[hub.clients[d]].authed /\ ~client[hub.clients[d]].closed)
        => LET s == hub.clients[d] IN
           /\ Put(s) = <<ErrorFrame("device_purged")>>
           /\ client'[s].closed
           /\ hub'.clients[d] = NoSession
           /\ \A k \in DOMAIN hub'.chatParticipants : hub'.chatParticipants[k] # d]_vars

\* The ban record of every banned device is in the next state as it is.
BanKept == \A d \in Devices : rdb.ban[d].exists => rdb'.ban[d] = rdb.ban[d]

\* The step dispatched an auth frame for a banned device on a session whose
\* channel is open and has room.
BannedAuthStep ==
    /\ last'.op = "auth"
    /\ rdb.ban[last'.p.device_uuid].exists
    /\ ~client[last'.s].closed
    /\ NoneDropped

---------------------------------------------------------------------------
(* Sessions: authentication, registration, the other frame types, close *)

WrongSecretItem == ChatReg("c1", "pB", "bad")
UnknownChatItem == ChatReg("c0", "pB", "sB")

RegPayloadsS ==
    {[chats |-> c] : c \in {<<GoodItem>>, <<WrongSecretItem>>, <<BadItem, GoodItem>>,
                            <<UnknownChatItem>>}}

\* Frames of the remaining types, sent as participant pB of c1.
OtherFrames ==
    {<<"typing.start", TypingPayload("c1", "pB", "sB")>>,
     <<"push.register", PushRegisterPayload("c1", "pB", "sB", "f1")>>,
     <<"push.unregister", TypingPayload("c1", "pB", "sB")>>,
     <<"push.burn_all", PushBurnAllPayload(<<"pB">>)>>,
     <<"ping", <<>>>>,
     <<"chat.expired", <<>>>>}

NextSession ==
    \/ /\ nframes < MaxFramesS
       /\ \E s \in Sessions, d \in {"dA", "dB"} : Auth(s, AuthPayload(d, UnixSec(now)))
    \/ /\ nframes < MaxFramesS
       /\ \E s \in Sessions, p \in RegPayloadsS : ChatRegister(s, p)
    \/ /\ nframes < MaxFramesS
       /\ MessageSend("s2", SendPayload("c1", "m2", B64Encode("y"), "pB", "sB"))
    \/ /\ nframes < MaxFramesS
       /\ MessageRead("s2", ReadPayload("c1", "m2"))
    \/ /\ nframes < MaxFramesS
       /\ \E f \in OtherFrames : Inbound("s2", f[1], f[2])
    \/ \E s \in Sessions : Disconnect(s)
    \/ RunUnregister

SpecSession == InitFrom(AliceOnline) /\ [][NextSession]_vars

\* The item carries the secret whose hash the chat stores for its participant.
ProvesSecret(db, item) ==
    /\ item.chat_uuid \in DOMAIN db.chat
    /\ db.chat[item.chat_uuid].exists
    /\ LET chat == db.chat[item.chat_uuid] IN
       \/ /\ chat.participant_a = item.participant_id
          /\ chat.participant_a_secret = HashSecret(item.participant_secret)
       \/ /\ chat.participant_b = item.participant_id
          /\ chat.participant_b_secret = HashSecret(item.participant_secret)

\* The items of the payload that name the routing key k.
ItemsNaming(chats, k) ==
    {i \in 1..Len(chats) : <<chats[i].chat_uuid, chats[i].participant_id>> = k}

\* C11: a step that writes a device into a (chat, participant) routing entry
\* is a chat.register on a session authenticated as that device whose payload
\* names the entry with the secret whose SHA-256 the chat stores for the
\* participant; a chat.register leaves every entry that none of its items
\* proves as it was, and its ack reports registered + failed equal to the
\* number of items, registered being the number of items that validated.
C11_RoutesProveSecret ==
    [][/\ \A k \in DOMAIN hub.chatParticipants :
            (/\ hub'.chatParticipants[k] # hub.chatParticipants[k]
             /\ hub'.chatParticipants[k] # NoDevice)
            => /\ last'.op = "chat.register"
               /\ client[last'.s].authed
               /\ client[last'.s].deviceUUID = hub'.chatParticipants[k]
               /\ \E i \in ItemsNaming(last'.p.chats, k) :
                     ProvesSecret(rdb, last'.p.chats[i])
       /\ (last'.op = "chat.register" /\ ~panicked')
            => /\ \A k \in DOMAIN hub.chatParticipants :
                    (\A i \in ItemsNaming(last'.p.chats, k) :
                        ~ProvesSecret(rdb, last'.p.chats[i]))
                    => hub'.chatParticipants[k] = hub.chatParticipants[k]
               /\ (client[last'.s].authed /\ NoneDropped)
                    => LET put == Put(last'.s)
                           ack == put[Len(put)]
                       IN /\ put # <<>>
                          /\ ack.type = "chat.register.ack"
                          /\ ack.a + ack.b = Len(last'.p.chats)
                          /\ ack.a = Cardinality({i \in 1..Len(last'.p.chats) :
                                          ProvesSecret(rdb, last'.p.chats[i])})]_vars

\* dB on s2 registered a payload of one failing and one proving item: the
\* entry (c1, pB) maps to dB and the ack reports 1 registered, 1 failed.
C11_Witness ==
    /\ last.op = "chat.register" /\ last.s = "s2"
    /\ last.p.chats = <<BadItem, GoodItem>>
    /\ client["s2"].deviceUUID = "dB"
    /\ hub.chatParticipants[<<"c1", "pB">>] = "dB"
    /\ hub.chatParticipants[<<"c1", "pX">>] = NoDevice
    /\ LET f == client["s2"].send[Len(client["s2"].send)]
       IN f.type = "chat.register.ack" /\ f.a = 1 /\ f.b = 1

\* The step dispatched a frame read from a session.
FrameStep(l) == l.s \in Sessions /\ l.op \notin {"disconnect", "run.unregister", "write"}

\* C12: a frame of a type other than auth, ping, push.register and
\* push.unregister that arrives on an unauthenticated session changes neither
\* the store nor the routing tables nor any other session, puts no frame on
\* any other session's channel, and leaves the session unauthenticated.
C12_UnauthenticatedRejected ==
    [][(/\ FrameStep(last')
        /\ last'.op \notin {"auth", "ping", "push.register", "push.unregister"}
        /\ ~client[last'.s].authed)
       => /\ rdb' = rdb
          /\ hub' = hub
          /\ ~client'[last'.s].authed
          /\ \A o \in Sessions \ {last'.s} : Put(o) = <<>> /\ client'[o] = client[o]]_vars

\* The unauthenticated session s2 sent a message.send into the chat whose
\* other participant is routed to s1, and got error{not_authenticated}.
C12_Witness ==
    /\ last.op = "message.send" /\ last.s = "s2"
    /\ ~client["s2"].authed
    /\ hub.chatParticipants[<<"c1", "pA">>] = "dA" /\ hub.clients["dA"] = "s1"
    /\ client["s2"].send # <<>>
    /\ client["s2"].send[Len(client["s2"].send)] = ErrorFrame("not_authenticated")

---------------------------------------------------------------------------
(* Authentication *)

\* Offsets, in seconds, of the timestamp of an auth frame from the server's
\* clock; the last one is the most negative value of the word.
AuthOffsets ==
    {0, AuthSkewSec, AuthSkewSec + 1, 0 - AuthSkewSec, 0 - (AuthSkewSec + 1),
     0 - WordHalf}

\* Auth frames signed with the device's key, and one with a forged signature.
AuthFrames(t) ==
    {AuthPayload(d, UnixSec(t) + o) : d \in Devices, o \in AuthOffsets}
    \cup {[AuthPayload("dB", UnixSec(t)) EXCEPT !.signature = <<"forged">>]}

NextAuth ==
    \/ /\ nframes < MaxFramesA
       /\ \E s \in Sessions, p \in AuthFrames(now) : Auth(s, p)
    \/ /\ nframes < MaxFramesA
       /\ MessageSend("s1", SendPayload("c1", "m1", B64Encode("x"), "pA", "sA"))
    \/ /\ nframes < MaxFramesA
       /\ HttpPurgeDevice(AuthPayload("dC", UnixSec(now)))
    \/ /\ ticks < MaxTicksA
       /\ \E delta \in {1000, DayPlan} : Tick(delta)
    \/ \E s \in Sessions : Disconnect(s)
    \/ RunUnregister

SpecAuth == InitAt(AliceWarned, 1) /\ [][NextAuth]_vars

\* The five conditions of a successful auth, the skew taken as the distance
\* between the server's clock and the timestamp.
AuthConditions(db, t, p) ==
    /\ db.pubkey[p.device_uuid].exists
    /\ UnixSec(t) - p.timestamp <= AuthSkewSec
    /\ p.timestamp - UnixSec(t) <= AuthSkewSec
    /\ p.signature = computeSignature(db.pubkey[p.device_uuid].key, p.device_uuid,
                                      p.timestamp)
    /\ ~db.ban[p.device_uuid].exists
    /\ IsSubscriptionActive(db, t, p.device_uuid)

AuthRefusals ==
    {AuthFailed("timestamp_expired"), AuthFailed("device_not_found"),
     AuthFailed("invalid_signature"), Frame("subscription.expired")}
    \cup {f \in UNION {{client'[x].send[i] : i \in 1..Len(client'[x].send)} :
                          x \in Sessions} : f.type = "banned"}

\* C13: an auth frame on an unauthenticated open session succeeds (session
\* authenticated as the device, device -> session written, auth.success
\* sent) exactly when the public key is stored, the timestamp is within 300 s
\* of the server's clock, the signature is the HMAC of "<device>:<timestamp>"
\* under the key, the device is not banned and its subscription is active;
\* otherwise the session stays unauthenticated, the routing is unchanged and
\* exactly one of the refusal frames is sent.
C13_AuthIffConditions ==
    [][(/\ last'.op = "auth"
        /\ ~client[last'.s].authed /\ ~client[last'.s].closed
        /\ NoneDropped)
       => IF AuthConditions(rdb, now, last'.p)
          THEN /\ client'[last'.s].authed
               /\ client'[last'.s].deviceUUID = last'.p.device_uuid
               /\ hub'.clients[last'.p.device_uuid] = last'.s
               /\ Put(last'.s) = <<Frame("auth.success")>>
          ELSE /\ ~client'[last'.s].authed
               /\ hub' = hub
               /\ Len(Put(last'.s)) = 1
               /\ Put(last'.s)[1] \in AuthRefusals]_vars

---------------------------------------------------------------------------
(* Relay to an online recipient *)

\* C14: when a message.send is relayed to an online recipient and the
\* sender is routable, the sender's channel gets message.ack before
\* message.delivered.
C14_AckBeforeDelivered ==
    [][(/\ last'.op = "message.send"
        /\ \E o \in Sessions : \E i \in 1..Len(Put(o)) :
              Put(o)[i].type = "message.received")
       => \A i, j \in 1..Len(Put(last'.s)) :
             (/\ Put(last'.s)[i].type = "message.ack"
              /\ Put(last'.s)[j].type = "message.delivered")
             => i < j]_vars

---------------------------------------------------------------------------
(* One routed session per device *)

RoutedTypes == {"message.received", "message.delivered", "message.read.ack"}

\* The step put auth.success on the channel of the session that sent auth.
AuthSucceeded ==
    /\ last'.op = "auth"
    /\ \E i \in 1..Len(Put(last'.s)) : Put(last'.s)[i].type = "auth.success"

\* C15: device -> session maps a device to at most one session; a
\* successful auth for D on S makes the entry S, replacing any previous
\* one, without closing or changing any other session; and a frame that a
\* message.send or message.read routes to a device goes only to the session
\* the entry of that device names.
C15_OneSessionPerDevice ==
    [][/\ \A d \in Devices : hub'.clients[d] \in Sessions \cup {NoSession}
       /\ AuthSucceeded
            => /\ hub'.clients[last'.p.device_uuid] = last'.s
               /\ client'[last'.s].deviceUUID = last'.p.device_uuid
               /\ \A o \in Sessions \ {last'.s} : client'[o] = client[o]
               /\ hub'.unregister = hub.unregister
               /\ hub'.connections = hub.connections
       /\ last'.op \in {"message.send", "message.read"}
            => \A o \in Sessions : \A i \in 1..Len(Put(o)) :
                  Put(o)[i].type \in RoutedTypes
                  => \E k \in DOMAIN hub.chatParticipants :
                        /\ k[1] = last'.p.chat_uuid
                        /\ hub.chatParticipants[k] # NoDevice
                        /\ hub.clients[hub.chatParticipants[k]] = o]_vars

\* dA, online on s1, authenticated again on s2: the entry of dA is s2, s1
\* is still open and authenticated, and a message.send for (c1, pA) was
\* relayed to s2.
C15_Witness ==
    /\ hub.clients["dA"] = "s2"
    /\ client["s1"].authed /\ ~client["s1"].closed /\ client["s1"].deviceUUID = "dA"
    /\ "s1" \in hub.connections
    /\ last.op = "message.send"
    /\ \E i \in 1..Len(client["s2"].send) : client["s2"].send[i].type = "message.received"
    /\ \A i \in 1..Len(client["s1"].send) : client["s1"].send[i].type # "message.received"

---------------------------------------------------------------------------
(* Cleanup on close *)

\* C16: once a session is closed, whatever auth and chat.register frames
\* it processed, no device -> session entry names it and no (chat,
\* participant) -> device entry written by one of its chat.register frames
\* remains.
C16_ClosedSessionForgotten ==
    \A s \in Sessions :
        client[s].closed
        => /\ \A d \in Devices : hub.clients[d] # s
           /\ \A k \in DOMAIN hub.chatParticipants :
                 hub.chatParticipants[k] # NoDevice => regBy[k] # s

---------------------------------------------------------------------------
(* The outbound channel of a session *)

\* dA online on s1 as (c1, pA) and dB online on s2 as (c1, pB).
BothOnline ==
    LET S1 == handleAuth(AliceOnline, 0, "s2", AuthPayload("dB", 0))
    IN handleChatRegister(S1, 0, "s2", [chats |-> <<GoodItem>>], <<<<>>>>)

NextBuffer ==
    \/ /\ nframes < MaxFramesB
       /\ Inbound("s2", "typing.start", TypingPayload("c1", "pB", "sB"))
    \/ /\ client["s1"].taken < MaxTakenB
       /\ WritePump("s1")

SpecBuffer == InitFrom(BothOnline) /\ [][NextBuffer]_vars

\* C17: the channel of a session never holds more than 256 frames; a frame
\* sent to a session whose channel holds 256 is dropped, SendMessage
\* reporting the failure, and the step that dropped it completes without
\* unregistering or closing any session and without changing the routing
\* tables.
C17_FullChannelDrops ==
    [][/\ \A o \in Sessions : Buffered(client'[o]) <= SendBuffer
       /\ (last'.op = "typing.start" /\ Buffered(client["s1"]) = SendBuffer)
            => /\ ~SendOk(Cur, "s1")
               /\ client'["s1"] = client["s1"]
               /\ hub' = hub
               /\ ~panicked']_vars

\* The channel of s1 is full and s2 has just sent one more typing.start:
\* s1 is still open and routed as (c1, pA).
C17_Witness ==
    /\ last.op = "typing.start" /\ last.s = "s2"
    /\ Buffered(client["s1"]) = SendBuffer
    /\ nframes > SendBuffer - 2 + client["s1"].taken
    /\ ~client["s1"].closed /\ "s1" \in hub.connections
    /\ hub.clients["dA"] = "s1" /\ hub.chatParticipants[<<"c1", "pA">>] = "dA"

---------------------------------------------------------------------------
(* Chat records and invitations under JoinChat *)

NextInvite ==
    \/ \E c \in Callers, token \in Tokens, pid \in Pids :
          JoinChat(c, token, "dB", pid, "sB")
    \/ /\ ticks < MaxTicksJ
       /\ \E delta \in {1, InviteUsedTTL, ChatKeyTTL} : Tick(delta)

SpecInvite == InitJoin /\ [][NextInvite]_vars

\* C18: every stored chat record carries an expiry that lies at most 24 h
\* after its creation, after CreateChat and after any JoinChat.
C18_ChatRecordsExpire ==
    \A c \in Chats :
        rdb.chat[c].exists
        => /\ rdb.chat[c].exp # NoExpiry
           /\ rdb.chat[c].exp <= rdb.chat[c].created_at + ChatKeyTTL

\* The invitation and its chat are stored, unused and pending.
Joinable(db, token) ==
    /\ db.invite[token].exists /\ ~db.invite[token].used
    /\ db.chat[db.invite[token].chat_uuid].exists
    /\ db.chat[db.invite[token].chat_uuid].status = "pending"

\* C19: a JoinChat on a stored, unused invitation of a pending chat with a
\* participant ID other than the creator's succeeds, and the one step that
\* succeeds makes the chat active with participant B's ID, secret hash and
\* device set to the joiner's, leaves participant A's fields and the
\* creation time as they were and marks the invitation used; and whenever
\* an invitation and its chat are stored, the invitation is used exactly
\* when the chat is no longer pending.
C19_JoinActivates ==
    [][/\ \A token \in Tokens :
            (rdb'.invite[token].exists /\ rdb'.chat[rdb'.invite[token].chat_uuid].exists)
            => (rdb'.invite[token].used
                <=> rdb'.chat[rdb'.invite[token].chat_uuid].status # "pending")
       /\ last'.op = "join"
            => LET token == last'.p[3]
                   pid == last'.p[2]
                   inv == rdb.invite[token]
                   ch == rdb.chat[inv.chat_uuid]
                   ch2 == rdb'.chat[inv.chat_uuid]
               IN /\ (Joinable(rdb, token) /\ pid # ch.participant_a)
                       <=> joinRes'[last'.p[1]].code = 1
                  /\ joinRes'[last'.p[1]].code = 1
                       => /\ ch2.exists /\ ch2.status = "active"
                          /\ ch2.participant_b = pid
                          /\ ch2.participant_b_secret = HashSecret("sB")
                          /\ ch2.participant_b_device = "dB"
                          /\ ch2.participant_a = ch.participant_a
                          /\ ch2.participant_a_secret = ch.participant_a_secret
                          /\ ch2.participant_a_device = ch.participant_a_device
                          /\ ch2.created_at = ch.created_at
                          /\ rdb'.invite[token].exists /\ rdb'.invite[token].used]_vars

\* Chat c1, created by dA as pA, was joined by dB as pB: it is active and
\* its invitation is stored and used.
C19_Witness ==
    /\ last.op = "join" /\ joinRes[last.p[1]].code = 1 /\ last.p[2] = "pB"
    /\ rdb.chat["c1"].status = "active"
    /\ rdb.chat["c1"].participant_a = "pA" /\ rdb.chat["c1"].participant_a_device = "dA"
    /\ rdb.chat["c1"].participant_b = "pB" /\ rdb.chat["c1"].participant_b_device = "dB"
    /\ rdb.invite["t1"].exists /\ rdb.invite["t1"].used

\* C20: a JoinChat that fails (invitation missing or used, chat missing or
\* not pending, the creator's participant ID) leaves the store exactly as
\* it was; after a rejection for the creator's participant ID the chat is
\* still pending and the invitation unused, so that a join with another
\* participant ID succeeds; a join with an unknown token creates nothing.
C20_FailedJoinChangesNothing ==
    [][(last'.op = "join" /\ joinRes'[last'.p[1]].code # 1)
       => /\ rdb' = rdb
          /\ joinRes'[last'.p[1]].code \in {0 - 1, 0 - 2, 0 - 3, 0 - 4}
          /\ joinRes'[last'.p[1]].code = 0 - 3
               => /\ Joinable(rdb', last'.p[3])
                  /\ JoinScript(rdb', now', last'.p[3], "dC", "pB",
                                HashSecret("sB")).code = 1
          /\ ~rdb.invite[last'.p[3]].exists
               => /\ joinRes'[last'.p[1]].code = 0 - 1
                  /\ ~rdb'.invite[last'.p[3]].exists]_vars

\* One call was rejected for using the creator's participant ID, a later
\* one with another ID succeeded, and the last one named an unknown token.
C20_Witness ==
    /\ last.op = "join" /\ last.p[3] = "t0"
    /\ joinRes[last.p[1]].code = 0 - 1
    /\ ~rdb.invite["t0"].exists
    /\ \E a, b \in Callers :
          /\ joinRes[a].done /\ joinRes[a].code = 0 - 3
          /\ joinRes[b].done /\ joinRes[b].code = 1
          /\ joinRes[a].at <= joinRes[b].at

---------------------------------------------------------------------------
(* N concurrent GetKeyBundle calls against K stored prekeys *)

\* Every caller runs GetKeyBundle: the GET of the bundle, then ConsumePreKey.
NextBundle ==
    \/ \E f \in Fetchers : GetKeyBundleGet(f, "dA")
    \/ \E f \in Fetchers : fetch[f].pc = "bundle" /\ ConsumePreKey(f, "dA")

SpecBundle == InitConsume /\ [][NextBundle]_vars

\* The calls that returned a bundle with a prekey, and the IDs they hold.
WithPreKey(fs) == {f \in Fetchers : fs[f].pc = "done" /\ fs[f].got # NoPreKey}
AttachedIds(fs) == {fs[f].got.id : f \in WithPreKey(fs)}

Min(a, b) == IF a <= b THEN a ELSE b
Max(a, b) == IF a >= b THEN a ELSE b

\* C21: the prekeys attached to returned bundles and the prekeys left in
\* the hash always partition the stored set, every attached prekey is the
\* stored value of its ID and no two calls hold the same ID; once all N
\* calls have returned, with K prekeys stored at the start, min(K, N) of
\* them hold a prekey, the others hold none, and max(K - N, 0) remain.
C21_BundlesShareOutPreKeys ==
    [][LET K == Cardinality(AttachedIds(fetch) \cup HKeys(rdb, "dA"))
           N == Cardinality(Fetchers)
       IN /\ AttachedIds(fetch') \cup HKeys(rdb', "dA")
               = AttachedIds(fetch) \cup HKeys(rdb, "dA")
          /\ AttachedIds(fetch') \cap HKeys(rdb', "dA") = {}
          /\ Cardinality(AttachedIds(fetch')) = Cardinality(WithPreKey(fetch'))
          /\ \A f \in WithPreKey(fetch') : fetch'[f].got = PreKeyOf(fetch'[f].got.id)
          /\ (\A f \in Fetchers : fetch'[f].pc = "done")
               => /\ Cardinality(WithPreKey(fetch')) = Min(K, N)
                  /\ Cardinality(HKeys(rdb', "dA")) = Max(K - N, 0)]_vars

\* Every call has returned: two hold distinct prekeys, another holds none
\* because the hash ran empty.
C21_Witness ==
    /\ \A f \in Fetchers : fetch[f].pc = "done"
    /\ Cardinality(AttachedIds(fetch)) >= 2
    /\ WithPreKey(fetch) # Fetchers
    /\ HKeys(rdb, "dA") = {}
    /\ rdb.keybundle["dA"].exists

---------------------------------------------------------------------------
(* The size of a ciphertext *)

NextSize ==
    \/ /\ nframes < MaxFramesZ
       /\ \E m \in Mids, bytes \in {"x", "big", "huge"}, secret \in {"sA", "bad"} :
             MessageSend("s1", SendPayload("c1", m, B64Encode(bytes), "pA", secret))
    \/ /\ nframes < MaxFramesZ
       /\ Auth("s2", AuthPayload("dB", UnixSec(now)))
    \/ /\ nframes < MaxFramesZ
       /\ ChatRegister("s2", [chats |-> <<GoodItem>>])
    \/ /\ ticks < MaxTicksQ
       /\ Tick(RateLimitWindow)
    \/ RunUnregister

SpecSize == InitFrom(AliceOnline) /\ [][NextSize]_vars

\* The frames of the given type that the step put on the channel of s.
PutOfType(s, type) == {i \in 1..Len(Put(s)) : Put(s)[i].type = type}

\* A message.send of an authenticated session that passes the rate limit
\* and carries valid credentials and a decodable content of n bytes.
SizedSend(n) ==
    /\ last'.op = "message.send"
    /\ client[last'.s].authed
    /\ CheckRateLimit(rdb, now, client[last'.s].deviceUUID, RateLimitPerMinute).allowed
    /\ ValidateParticipant(rdb, last'.p.chat_uuid, last'.p.participant_id,
                           last'.p.participant_secret)
    /\ B64DecodeOk(last'.p.encrypted_content)
    /\ ContentLen(B64Decode(last'.p.encrypted_content)) = n
    /\ NoneDropped

\* C22: a message.send whose decoded ciphertext has exactly 10 240 bytes is
\* routed (relayed to the recipient's session or queued) and acked; one of
\* 10 241 bytes gets error{message_too_large} and is neither relayed nor
\* queued nor acked; the session stays open in both cases.
C22_SizeBoundary ==
    [][/\ SizedSend(MaxContentLen)
            => /\ PutOfType(last'.s, "message.ack") # {}
               /\ \/ \E o \in Sessions : PutOfType(o, "message.received") # {}
                  \/ rdb'.msg[<<last'.p.chat_uuid, last'.p.message_id>>].exists
               /\ client'[last'.s].reading
               /\ hub'.unregister = hub.unregister
       /\ SizedSend(MaxContentLen + 1)
            => /\ Put(last'.s) = <<ErrorFrame("message_too_large")>>
               /\ \A o \in Sessions : PutOfType(o, "message.received") = {}
               /\ rdb'.msg = rdb.msg
               /\ client'[last'.s].reading
               /\ hub'.unregister = hub.unregister]_vars

---------------------------------------------------------------------------
(* Read receipts with a device that takes part in two chats *)

\* Chat c1 as before; chat c2 created by dB as pB and joined by dA as pX.
\* dA is online on s1, registered as (c1, pA) and (c2, pX); dB is online on
\* s2, registered as (c1, pB) and (c2, pB).
TwoChats ==
    LET d1 == CreateChat(BaseDb, 0, "c2", "pB", "sB", "dB", "t0")
        d2 == JoinScript(d1, 0, "t0", "dA", "pX", HashSecret("sX")).rdb
        S0 == [rdb |-> d2, hub |-> NewHub,
               client |-> [s \in Sessions |-> NewClient], panic |-> FALSE]
        S1 == handleAuth(S0, 0, "s1", AuthPayload("dA", 0))
        S2 == handleChatRegister(S1, 0, "s1",
                  [chats |-> <<ChatReg("c1", "pA", "sA"), ChatReg("c2", "pX", "sX")>>],
                  <<<<>>, <<>>>>)
        S3 == handleAuth(S2, 0, "s2", AuthPayload("dB", 0))
    IN handleChatRegister(S3, 0, "s2",
           [chats |-> <<ChatReg("c1", "pB", "sB"), ChatReg("c2", "pB", "sB")>>],
           <<<<>>, <<>>>>)

NextRead ==
    \/ /\ nframes < MaxFramesD
       /\ \E s \in Sessions, c \in Chats, m \in Mids : MessageRead(s, ReadPayload(c, m))
    \/ /\ nframes < MaxFramesD
       /\ \E c \in Chats :
            MessageSend("s2", SendPayload(c, "m1", B64Encode("x"), "pB", "sB"))
    \/ \E s \in Sessions : Disconnect(s)
    \/ RunUnregister

SpecRead == InitFrom(TwoChats) /\ [][NextRead]_vars

\* C23: a message.read.ack for (chat, message_id) goes only to the session
\* of the other participant of that chat, the reader's participant being
\* the one the chat record holds for the reader's device; it never goes to
\* the session that sent the message.read.
C23_ReadAckToOtherParticipant ==
    [][last'.op = "message.read"
       => \A o \in Sessions :
             PutOfType(o, "message.read.ack") # {}
             => LET chatUUID == last'.p.chat_uuid
                    reader == IsDeviceParticipant(rdb, chatUUID,
                                                  client[last'.s].deviceUUID)
                IN /\ o # last'.s
                   /\ reader.ok
                   /\ o = Routed(hub, chatUUID,
                                 RecipientOf(rdb.chat[chatUUID], reader.participant_id))]_vars

---------------------------------------------------------------------------
(* Abuse escalation on message.send *)

\* The step dispatched a message.send of an authenticated session that
\* breaks a policy: rate limit, credentials, size, or a content that does
\* not decode.
PolicyViolation ==
    /\ last'.op = "message.send"
    /\ client[last'.s].authed
    /\ \/ ~CheckRateLimit(rdb, now, client[last'.s].deviceUUID, RateLimitPerMinute).allowed
       \/ ~ValidateParticipant(rdb, last'.p.chat_uuid, last'.p.participant_id,
                               last'.p.participant_secret)
       \/ ~B64DecodeOk(last'.p.encrypted_content)
       \/ ContentLen(B64Decode(last'.p.encrypted_content)) > MaxContentLen

\* handle_abuse ran for the device: a first violation wrote the warning
\* record, a later one the ban record.
Escalated(d) ==
    IF rdb.ban[d].exists \/ rdb.warn[d].exists
    THEN rdb'.ban[d].exists
    ELSE rdb'.warn[d].exists /\ rdb'.warn[d].count = 1

\* C24: every message.send of an authenticated device that breaks a policy
\* (rate limit, invalid participant credentials, oversize or undecodable
\* ciphertext) runs the abuse escalation for the device: a warning on the
\* first violation, a ban on the next.
C24_ViolationsEscalate ==
    [][PolicyViolation => Escalated(client[last'.s].deviceUUID)]_vars

---------------------------------------------------------------------------
(* The duplicate-content counter *)

\* The i-th of a series of sends, two per rate-limit window, 1 ms apart.
PacedAt(i) == ((i - 1) \div 2) * (RateLimitWindow + 1) + ((i - 1) % 2)

\* The session dispatches the same message.send at the times PacedAt(i),
\* i = from..to, keys expiring in between.
RECURSIVE PacedSends(_, _, _, _, _)
PacedSends(S, s, p, from, to) ==
    IF from > to THEN S
    ELSE PacedSends(
            handleMessageSend([S EXCEPT !.rdb = Sweep(@, PacedAt(from))],
                              PacedAt(from), s, p),
            s, p, from + 1, to)

CopyOfX == SendPayload("c1", "m1", B64Encode("x"), "pA", "sA")

\* dA, online on s1, has sent the content x all but two times short of the
\* threshold.
AliceRepeats == PacedSends(AliceOnline, "s1", CopyOfX, 1, SpamThreshold - 2)

NextSpam ==
    \/ /\ nframes < MaxFramesP
       /\ \E bytes \in {"x", "y"} :
            MessageSend("s1", SendPayload("c1", "m1", B64Encode(bytes), "pA", "sA"))
    \/ /\ ticks < MaxTicksP
       /\ \E delta \in {1, RateLimitWindow, MsgHashTTL} : Tick(delta)
    \/ RunUnregister

SpecSpam == InitAt(AliceRepeats, PacedAt(SpamThreshold - 2)) /\ [][NextSpam]_vars

\* The value of a counter key, 0 when the key is not stored.
CounterOf(e) == IF e.exists THEN e.n ELSE 0

\* The step dispatched a message.send that reaches RecordMessage: the
\* session is authenticated, the rate limit passes, the credentials are
\* valid and the content decodes within the size limit.
RecordedSend ==
    /\ last'.op = "message.send"
    /\ client[last'.s].authed
    /\ FrameLen(last'.p) <= maxMessageSize
    /\ CheckRateLimit(rdb, now, client[last'.s].deviceUUID, RateLimitPerMinute).allowed
    /\ ValidateParticipant(rdb, last'.p.chat_uuid, last'.p.participant_id,
                           last'.p.participant_secret)
    /\ B64DecodeOk(last'.p.encrypted_content)
    /\ ContentLen(B64Decode(last'.p.encrypted_content)) <= MaxContentLen

\* C25: a message.send that reaches the duplicate counter increments the
\* counter of (device, content hash) and makes it expire 5 minutes later;
\* while the incremented counter is below 10 (and the cadence counter
\* below its threshold) no warning or ban is written; when it is 10 or
\* more the abuse escalation runs, and if its action is ban the message
\* is neither relayed nor queued nor acked and the session, unless Hub.Run
\* has closed it already, gets banned{abuse} and is handed to Hub.Run for
\* closing.
C25_TenthDuplicateEscalates ==
    [][RecordedSend
       => LET d == client[last'.s].deviceUUID
              hk == <<d, sha256Hash(B64Decode(last'.p.encrypted_content))>>
              n == CounterOf(rdb.msghash[hk]) + 1
              fast == rdb.msgtiming[d].exists /\ now - rdb.msgtiming[d].at < BotGapMs
              cadence == fast /\ CounterOf(rdb.botcount[d]) + 1 >= BotThreshold
          IN /\ rdb'.msghash[hk].exists
             /\ rdb'.msghash[hk].n = n
             /\ rdb'.msghash[hk].exp = now + MsgHashTTL
             /\ (n < SpamThreshold /\ ~cadence)
                  => /\ rdb'.warn = rdb.warn /\ rdb'.ban = rdb.ban
                     /\ hub'.unregister = hub.unregister
             /\ n >= SpamThreshold
                  => /\ Escalated(d)
                     /\ rdb'.ban[d].exists
                          => /\ NothingRelayed
                             /\ \/ client[last'.s].closed
                                \/ /\ Put(last'.s) = <<Banned("abuse")>>
                                   /\ hub'.unregister =
                                          Append(hub.unregister, last'.s)]_vars

\* dA's tenth copy of x brought a warning, a later copy the ban: the
\* session got banned{abuse} and Hub.Run closed it.
C25_Witness ==
    /\ last.op = "run.unregister" /\ last.s = "s1"
    /\ client["s1"].closed
    /\ rdb.ban["dA"].exists
    /\ rdb.msghash[<<"dA", sha256Hash("x")>>].exists
    /\ rdb.msghash[<<"dA", sha256Hash("x")>>].n > SpamThreshold
    /\ client["s1"].send[Len(client["s1"].send)] = Banned("abuse")

---------------------------------------------------------------------------
(* internal/websocket/hub.go: the handlers statement by statement, with
   Hub.mu and the locks of the sessions *)

\* sync.RWMutex: Lock waits for the writer and every reader to leave, RLock
\* for the writer.
CanLock(m) == m.writer = NoHolder /\ m.readers = {}

CanRLock(m) == m.writer = NoHolder

Holds(m, g) == m.writer = g \/ g \in m.readers

\* One statement of goroutine g: the machine is left in state S, g at
\* position to, the mutex as m.
Stmt(g, S, to, m) ==
    /\ rdb' = S.rdb
    /\ hub' = S.hub
    /\ client' = S.client
    /\ panicked' = S.panic
    /\ pc' = [pc EXCEPT ![g] = to]
    /\ mu' = m
    /\ UNCHANGED <<now, ticks, nframes, last, joinRes, fetch, regBy>>

Goto(g, S, at) == Stmt(g, S, [pc[g] EXCEPT !.at = at], mu)

\* The handler returns. Where it ended in h.unregister <- client, the
\* goroutine stays blocked on the unbuffered channel until Hub.Run receives.
Return(g, S) ==
    Stmt(g, S,
         IF Len(S.hub.unregister) > Len(hub.unregister)
         THEN [at |-> "send.unreg"] ELSE Waiting,
         mu)

\* The conditions handleAuth checks before client.SetDeviceUUID.
AuthChecked(db, t, p) ==
    /\ ~IsBanned(db, p.device_uuid)
    /\ Abs(Wrap(UnixSec(t) - p.timestamp)) <= AuthSkewSec
    /\ db.pubkey[p.device_uuid].exists
    /\ p.signature = computeSignature(db.pubkey[p.device_uuid].key, p.device_uuid,
                                      p.timestamp)
    /\ IsSubscriptionActive(db, t, p.device_uuid)

\* ReadPump of session s reads a frame and HandleMessage dispatches it.
Dispatch(s, op, p) ==
    /\ ~panicked /\ client[s].reading /\ pc[s].at = "idle"
    /\ pc' = [pc EXCEPT ![s] = [at |-> op, p |-> p]]
    /\ last' = [op |-> op, s |-> s, p |-> p]
    /\ nframes' = nframes + 1
    /\ UNCHANGED <<now, ticks, rdb, hub, client, panicked, joinRes, fetch, regBy, mu>>

\* conn.ReadMessage fails: ReadPump leaves its loop and its deferred function
\* hands the client to Hub.Run.
ReadError(s) ==
    /\ ~panicked /\ client[s].reading /\ pc[s].at = "idle"
    /\ Stmt(s, [Cur EXCEPT !.client[s].reading = FALSE,
                           !.hub.unregister = Append(@, s)],
            [at |-> "pump.unreg"], mu)

\* handleAuth.
AuthStmt(s) ==
    LET p == pc[s].p
        d == p.device_uuid
    IN
    /\ ~panicked
    /\ \/ /\ pc[s].at = "auth"
          /\ IF AuthChecked(rdb, now, p)
             THEN Goto(s, Cur, "auth.setdev")
             ELSE Return(s, handleAuth(Cur, now, s, p))
       \/ /\ pc[s].at = "auth.setdev"
          /\ Goto(s, [Cur EXCEPT !.client[s].deviceUUID = d,
                                 !.client[s].authed = TRUE], "auth.lock")
       \/ /\ pc[s].at = "auth.lock" /\ CanLock(mu)
          /\ Stmt(s, Cur, [pc[s] EXCEPT !.at = "auth.write"],
                  [mu EXCEPT !.writer = s])
       \/ /\ pc[s].at = "auth.write"
          /\ Goto(s, [Cur EXCEPT !.hub.clients[d] = s], "auth.unlock")
       \/ /\ pc[s].at = "auth.unlock"
          /\ Stmt(s, Cur, [pc[s] EXCEPT !.at = "auth.len"],
                  [mu EXCEPT !.writer = NoHolder])
       \/ /\ pc[s].at = "auth.len"
          /\ Return(s, SendMessage(Cur, s, Frame("auth.success")))

\* Where the first loop of handleChatRegister goes after item i.
AfterItem(q, i) ==
    IF i < Len(q.p.chats) THEN [q EXCEPT !.at = "reg.validate", !.i = i + 1]
    ELSE [q EXCEPT !.at = "reg.unlock"]

\* handleChatRegister. The first loop validates and writes item by item
\* between h.mu.Lock() and h.mu.Unlock(); the drain loop and the
\* acknowledgement are the last statement.
RegisterStmt(s) ==
    LET q == pc[s]
        p == q.p
    IN
    /\ ~panicked
    /\ \/ /\ q.at = "chat.register"
          /\ IF ~client[s].authed
             THEN Return(s, SendMessage(Cur, s, ErrorFrame("not_authenticated")))
             ELSE Stmt(s, Cur,
                       [at |-> "reg.lock", p |-> p, i |-> 0, registered |-> 0,
                        dev |-> client[s].deviceUUID], mu)
       \/ /\ q.at = "reg.lock" /\ CanLock(mu)
          /\ Stmt(s, Cur, AfterItem(q, 0), [mu EXCEPT !.writer = s])
       \/ /\ q.at = "reg.validate"
          /\ IF ValidateParticipant(rdb, p.chats[q.i].chat_uuid,
                                    p.chats[q.i].participant_id,
                                    p.chats[q.i].participant_secret)
             THEN Goto(s, Cur, "reg.write")
             ELSE Stmt(s, Cur, AfterItem(q, q.i), mu)
       \/ /\ q.at = "reg.write"
          /\ LET k == <<p.chats[q.i].chat_uuid, p.chats[q.i].participant_id>> IN
             /\ rdb' = rdb /\ client' = client /\ panicked' = panicked /\ mu' = mu
             /\ hub' = [hub EXCEPT !.chatParticipants[k] = q.dev]
             /\ regBy' = [regBy EXCEPT ![k] = s]
             /\ pc' = [pc EXCEPT ![s] =
                          AfterItem([q EXCEPT !.registered = @ + 1], q.i)]
             /\ UNCHANGED <<now, ticks, nframes, last, joinRes, fetch>>
       \/ /\ q.at = "reg.unlock"
          /\ Stmt(s, Cur, [q EXCEPT !.at = "reg.rlock"], [mu EXCEPT !.writer = NoHolder])
       \/ /\ q.at = "reg.rlock" /\ CanRLock(mu)
          /\ Stmt(s, Cur, [q EXCEPT !.at = "reg.range"],
                  [mu EXCEPT !.readers = @ \cup {s}])
       \/ /\ q.at = "reg.range"
          /\ Goto(s, Cur, "reg.runlock")
       \/ /\ q.at = "reg.runlock"
          /\ Stmt(s, Cur, [q EXCEPT !.at = "reg.drain"],
                  [mu EXCEPT !.readers = @ \ {s}])
       \/ /\ q.at = "reg.drain"
          /\ \E orders \in Orders(rdb, p.chats) :
               /\ \A i \in 1..Len(p.chats) :
                     orders[i] \in Perms(QueuedIds(rdb, p.chats[i].chat_uuid))
               /\ Return(s, SendMessage(DrainChats(Cur, s, p.chats, orders, 1), s,
                            [Frame("chat.register.ack") EXCEPT
                                !.a = q.registered,
                                !.b = Len(p.chats) - q.registered]))

\* handleMessageSend. The store calls before the table lookup are one
\* statement, those after it another; sendDeliveryConfirmation's own lookup
\* under RLock follows where the message went to a connected recipient.
SendStmt(s) ==
    LET q == pc[s]
        p == q.p
        deviceUUID == client[s].deviceUUID
        rl == CheckRateLimit(rdb, now, deviceUUID, RateLimitPerMinute)
    IN
    /\ ~panicked
    /\ \/ /\ q.at = "message.send"
          /\ IF ~client[s].authed
             THEN Return(s, handleMessageSend(Cur, now, s, p))
             ELSE Goto(s, Cur, "send.store")
       \/ /\ q.at = "send.store"
          /\ IF ~rl.allowed
                \/ ~ValidateParticipant(rl.rdb, p.chat_uuid, p.participant_id,
                                        p.participant_secret)
             THEN Return(s, handleMessageSend(Cur, now, s, p))
             ELSE Stmt(s, [Cur EXCEPT !.rdb = rl.rdb],
                       [at |-> "send.rlock", p |-> p,
                        other |-> RecipientOf(rl.rdb.chat[p.chat_uuid], p.participant_id),
                        recipient |-> NoSession], mu)
       \/ /\ q.at = "send.rlock" /\ CanRLock(mu)
          /\ Stmt(s, Cur, [q EXCEPT !.at = "send.read"],
                  [mu EXCEPT !.readers = @ \cup {s}])
       \/ /\ q.at = "send.read"
          /\ Stmt(s, Cur, [q EXCEPT !.at = "send.runlock",
                                    !.recipient = Routed(hub, p.chat_uuid, q.other)], mu)
       \/ /\ q.at = "send.runlock"
          /\ Stmt(s, Cur, [q EXCEPT !.at = "send.tail"],
                  [mu EXCEPT !.readers = @ \ {s}])
       \/ /\ q.at = "send.tail"
          /\ LET R == SendTail(Cur, now, s, p, q.recipient) IN
             IF /\ q.recipient # NoSession
                /\ Len(R.hub.unregister) = Len(hub.unregister)
                /\ B64DecodeOk(p.encrypted_content)
                /\ ContentLen(B64Decode(p.encrypted_content)) <= MaxContentLen
             THEN Stmt(s, R, [at |-> "conf.rlock"], mu)
             ELSE Return(s, R)
       \/ /\ q.at = "conf.rlock" /\ CanRLock(mu)
          /\ Stmt(s, Cur, [at |-> "conf.read"], [mu EXCEPT !.readers = @ \cup {s}])
       \/ /\ q.at = "conf.read"
          /\ Goto(s, Cur, "conf.runlock")
       \/ /\ q.at = "conf.runlock"
          /\ Stmt(s, Cur, Waiting, [mu EXCEPT !.readers = @ \ {s}])

\* Hub.Run receives from h.unregister: the sender blocked on the channel
\* goes on, a ReadPump that was returning is gone.
Received(s) ==
    /\ ~panicked /\ pc[s].at \in {"send.unreg", "pump.unreg"}
    /\ s \notin {hub.unregister[i] : i \in 1..Len(hub.unregister)}
    /\ Stmt(s, Cur, IF pc[s].at = "send.unreg" THEN Waiting ELSE [at |-> "gone"], mu)

\* Hub.Run, case client := <-h.unregister.
RunStmt ==
    LET q == pc["run"] IN
    /\ ~panicked
    /\ \/ /\ q.at = "idle" /\ hub.unregister # <<>>
          /\ Stmt("run", [Cur EXCEPT !.hub.unregister = Tail(@)],
                  [at |-> "run.lock", c |-> Head(hub.unregister), dev |-> NoDevice], mu)
       \/ /\ q.at = "run.lock" /\ CanLock(mu)
          /\ Stmt("run", Cur, [q EXCEPT !.at = "run.conn"], [mu EXCEPT !.writer = "run"])
       \/ /\ q.at = "run.conn"
          /\ IF q.c \in hub.connections
             THEN Goto("run", [Cur EXCEPT !.hub.connections = @ \ {q.c}], "run.dev")
             ELSE Goto("run", Cur, "run.unlock")
       \/ /\ q.at = "run.dev"
          /\ Stmt("run", Cur,
                  [q EXCEPT !.at = IF client[q.c].deviceUUID # "" THEN "run.delete"
                                   ELSE "run.close",
                            !.dev = client[q.c].deviceUUID], mu)
       \/ /\ q.at = "run.delete"
          /\ Goto("run",
                  [Cur EXCEPT
                     !.hub.clients = [@ EXCEPT ![q.dev] = NoSession],
                     !.hub.chatParticipants =
                         [k \in DOMAIN @ |-> IF @[k] = q.dev THEN NoDevice ELSE @[k]]],
                  "run.close")
       \/ /\ q.at = "run.close"
          /\ Goto("run", [Cur EXCEPT !.client[q.c].closed = TRUE], "run.unlock")
       \/ /\ q.at = "run.unlock"
          /\ Stmt("run", Cur, Waiting, [mu EXCEPT !.writer = NoHolder])

\* The locks: Hub.mu and the mutex of each Client.
HubMu == <<"h.mu", "">>

ClientMu(s) == <<"c.mu", s>>

\* One access of goroutine g to a shared object, with the locks that order
\* it: own are the locks the accessor method takes itself; Hub.mu orders a
\* write when g holds Lock, a read when g holds Lock or RLock.
Access(g, obj, write, own) ==
    [obj |-> obj, write |-> write,
     locks |-> own \cup (IF mu.writer = g \/ (~write /\ g \in mu.readers)
                         THEN {HubMu} ELSE {})]

\* The accesses to the Hub's maps and to the fields of the sessions that
\* goroutine g performs in its next statement.
Accesses(g) ==
    LET at == pc[g].at IN
    IF at = "auth.setdev"
    THEN {Access(g, <<"deviceUUID", g>>, TRUE, {ClientMu(g)}),
          Access(g, <<"authed", g>>, TRUE, {ClientMu(g)})}
    ELSE IF at \in {"chat.register", "message.send"}
    THEN {Access(g, <<"authed", g>>, FALSE, {ClientMu(g)}),
          Access(g, <<"deviceUUID", g>>, FALSE, {ClientMu(g)})}
    ELSE IF at = "auth.write" THEN {Access(g, <<"clients", "">>, TRUE, {})}
    ELSE IF at = "auth.len" THEN {Access(g, <<"clients", "">>, FALSE, {})}
    ELSE IF at = "reg.write" THEN {Access(g, <<"chatParticipants", "">>, TRUE, {})}
    ELSE IF at = "reg.range" THEN {Access(g, <<"chatParticipants", "">>, FALSE, {})}
    ELSE IF at \in {"send.read", "conf.read"}
    THEN {Access(g, <<"chatParticipants", "">>, FALSE, {}),
          Access(g, <<"clients", "">>, FALSE, {})}
    ELSE IF at = "run.conn" THEN {Access(g, <<"connections", "">>, TRUE, {})}
    ELSE IF at = "run.dev" THEN {Access(g, <<"deviceUUID", pc[g].c>>, FALSE, {})}
    ELSE IF at = "run.delete"
    THEN {Access(g, <<"deviceUUID", pc[g].c>>, FALSE, {}),
          Access(g, <<"clients", "">>, TRUE, {}),
          Access(g, <<"chatParticipants", "">>, TRUE, {})}
    ELSE {}

\* Two goroutines are about to touch one object, one of them writing, with
\* no lock in common.
Race(a, b) ==
    \E x \in Accesses(a), y \in Accesses(b) :
        /\ x.obj = y.obj
        /\ x.write \/ y.write
        /\ x.locks \cap y.locks = {}

\* The positions at which a goroutine is in a round trip to the Store.
StoreCalls == {"auth", "reg.validate", "reg.drain", "send.store", "send.tail"}

MaxFramesL == 3

RegPayloadsL == {[chats |-> c] : c \in {<<GoodItem>>, <<BadItem, GoodItem>>}}

SendPayloadsL ==
    {SendPayload("c1", "m1", B64Encode("x"), "pA", "sA"),
     SendPayload("c1", "m2", B64Encode("y"), "pB", "sB")}

NextLock ==
    \/ /\ nframes < MaxFramesL
       /\ \E s \in Sessions, d \in {"dA", "dB"} :
             Dispatch(s, "auth", AuthPayload(d, UnixSec(now)))
    \/ /\ nframes < MaxFramesL
       /\ \E s \in Sessions, p \in RegPayloadsL : Dispatch(s, "chat.register", p)
    \/ /\ nframes < MaxFramesL
       /\ \E s \in Sessions, p \in SendPayloadsL : Dispatch(s, "message.send", p)
    \/ \E s \in Sessions : ReadError(s)
    \/ \E s \in Sessions : AuthStmt(s)
    \/ \E s \in Sessions : RegisterStmt(s)
    \/ \E s \in Sessions : SendStmt(s)
    \/ \E s \in Sessions : Received(s)
    \/ RunStmt

SpecLock == InitAt(AliceWarned, 1) /\ [][NextLock]_vars

\* C26: a goroutine in a round trip to the Store does not hold the Hub's
\* mutex, so that a slow Store call stalls the session that made it and no
\* other (the credential validation of chat.register included).
C26_NoStoreCallUnderLock ==
    \A g \in Goroutines : pc[g].at \in StoreCalls => ~Holds(mu, g)

\* C30: no two goroutines are ever about to access one of the Hub's maps or
\* one session's authed flag or device UUID, one of them writing, without a
\* lock that orders the two accesses.
C30_NoUnsynchronisedAccess ==
    \A a, b \in Goroutines : a # b => ~Race(a, b)

---------------------------------------------------------------------------
(* Sessions that outlive the subscription of their device *)

MaxFramesE == 3
MaxTicksE == 2

NextExpiry ==
    \/ /\ nframes < MaxFramesE
       /\ MessageSend("s1", SendPayload("c1", "m1", B64Encode("x"), "pA", "sA"))
    \/ /\ nframes < MaxFramesE
       /\ \E d \in {"dA", "dB"} : Auth("s2", AuthPayload(d, UnixSec(now)))
    \/ /\ nframes < MaxFramesE
       /\ ChatRegister("s2", [chats |-> <<GoodItem>>])
    \/ /\ ticks < MaxTicksE
       /\ \E delta \in {RateLimitWindow, DayPlan} : Tick(delta)
    \/ \E s \in Sessions : WritePump(s)
    \/ \E s \in Sessions : Disconnect(s)
    \/ RunUnregister

\* Hub.Run and the WritePump of every session are goroutines of their own:
\* each takes its step when it has one. Clients send frames and leave as
\* they please, and time passes as it pleases.
SpecExpiry ==
    /\ InitFrom(AliceOnline)
    /\ [][NextExpiry]_vars
    /\ WF_hub(RunUnregister)
    /\ \A s \in Sessions : WF_client(WritePump(s))

\* Session s is open and authenticated as a device whose subscription is not
\* active.
Lapsed(s) ==
    /\ client[s].authed /\ ~client[s].closed /\ client[s].reading
    /\ ~IsSubscriptionActive(rdb, now, client[s].deviceUUID)

\* C27: a session whose device has lost its subscription is eventually
\* closed; none stays open and authenticated for ever.
C27_LapsedSessionCloses ==
    \A s \in Sessions : Lapsed(s) ~> client[s].closed

---------------------------------------------------------------------------
(* Key registration against concurrent bundle fetches *)

MaxFramesK == 3

\* Handlers.RegisterKeysPublic: 401 without an active subscription, else
\* StoreKeyBundle with the prekeys of the request.
httpRegisterKeysPublic(S, t, deviceUUID, preKeys) ==
    IF ~IsSubscriptionActive(S.rdb, t, deviceUUID) THEN S
    ELSE [S EXCEPT !.rdb = StoreKeyBundle(@, t, deviceUUID, preKeys)]

HttpRegisterKeysPublic(deviceUUID, preKeys) ==
    /\ ~panicked
    /\ Step(httpRegisterKeysPublic(Cur, now, deviceUUID, preKeys),
            [op |-> "keys.register", s |-> NoSession,
             p |-> [device_uuid |-> deviceUUID, prekeys |-> preKeys]], 1)

\* Device dA, activated, has registered a bundle with the prekeys P.
InitStore ==
    \E P \in SUBSET PreKeyIds :
        InitFrom([rdb |-> StoreKeyBundle(BaseDb, 0, "dA", P),
                  hub |-> NewHub,
                  client |-> [s \in Sessions |-> NewClient],
                  panic |-> FALSE])

NextStore ==
    \/ /\ nframes < MaxFramesK
       /\ \E P \in SUBSET PreKeyIds : HttpRegisterKeysPublic("dA", P)
    \/ \E f \in Fetchers : GetKeyBundleGet(f, "dA")
    \/ \E f \in Fetchers : fetch[f].pc = "bundle" /\ ConsumePreKey(f, "dA")

SpecStore == InitStore /\ [][NextStore]_vars

\* C28: after a key registration of an activated device the prekey hash
\* holds exactly the prekeys of the request, whatever the request lists,
\* the empty list included.
C28_StoreReplacesPreKeys ==
    [][(last'.op = "keys.register"
        /\ IsSubscriptionActive(rdb, now, last'.p.device_uuid))
       => HKeys(rdb', last'.p.device_uuid) = last'.p.prekeys]_vars

---------------------------------------------------------------------------
(* Push registrations and push.burn_all *)

MaxFramesU == 3

BurnLists == {<<>>, <<"pA">>, <<"pB">>, <<"pA", "pB">>, <<"*">>}

NextPush ==
    \/ /\ nframes < MaxFramesU
       /\ \/ Inbound("s1", "push.register", PushRegisterPayload("c1", "pA", "sA", "f1"))
          \/ Inbound("s2", "push.register", PushRegisterPayload("c1", "pB", "sB", "f2"))
    \/ /\ nframes < MaxFramesU
       /\ \E s \in Sessions, ids \in BurnLists :
             Inbound(s, "push.burn_all", PushBurnAllPayload(ids))
    \/ \E s \in Sessions : Disconnect(s)
    \/ RunUnregister

SpecPush == InitFrom(BothOnline) /\ [][NextPush]_vars

\* The push registrations the store holds.
PushKeys(db) == {k \in DOMAIN db.push : db.push[k].exists}

\* Some chat record names the participant ID as one of the device.
OwnsParticipant(db, deviceUUID, participantID) ==
    \E c \in Chats :
        /\ db.chat[c].exists
        /\ \/ /\ db.chat[c].participant_a = participantID
              /\ db.chat[c].participant_a_device = deviceUUID
           \/ /\ db.chat[c].participant_b = participantID
              /\ db.chat[c].participant_b_device = deviceUUID

\* C29: a push.burn_all of an authenticated session removes push
\* registrations of participant IDs of the calling device only, and the
\* deleted count of its ack is the number of registrations removed.
C29_BurnAllOnlyOwn ==
    [][(last'.op = "push.burn_all" /\ client[last'.s].authed)
       => LET gone == PushKeys(rdb) \ PushKeys(rdb') IN
          /\ \A k \in gone :
                OwnsParticipant(rdb, client[last'.s].deviceUUID, k[2])
          /\ \A i \in 1..Len(Put(last'.s)) :
                Put(last'.s)[i].type = "push.burn_all.ack"
                    => Put(last'.s)[i].a = Cardinality(gone)]_vars

---------------------------------------------------------------------------
(* The queue under reused message IDs *)

\* The number of times the per-chat list holds the ID.
Occurrences(db, chatUUID, messageID) ==
    Cardinality({i \in 1..Len(db.msg_queue[chatUUID].ids) :
                    db.msg_queue[chatUUID].ids[i] = messageID})

\* C31: the list of a chat never holds a message ID twice; a message.send
\* that meets a live entry of its (chat, message_id) leaves the stored sender
\* and ciphertext as they are; and once the entry of an ID is deleted the
\* list holds no occurrence of that ID.
C31_QueueEntryWrittenOnce ==
    [][\A c \in Chats, m \in Mids :
          /\ Occurrences(rdb', c, m) <= 1
          /\ (last'.op = "message.send" /\ rdb.msg[<<c, m>>].exists
                /\ rdb'.msg[<<c, m>>].exists)
               => /\ rdb'.msg[<<c, m>>].sender_participant
                        = rdb.msg[<<c, m>>].sender_participant
                  /\ rdb'.msg[<<c, m>>].encrypted_content
                        = rdb.msg[<<c, m>>].encrypted_content
          /\ (last'.op = "message.read" /\ rdb.msg[<<c, m>>].exists
                /\ ~rdb'.msg[<<c, m>>].exists)
               => Occurrences(rdb', c, m) = 0]_vars

---------------------------------------------------------------------------
(* Frames for a session whose channel Hub.Run has closed *)

\* C32: SendMessage is never called on the channel of a session after
\* Client.Close closed it (the send would panic).
C32_NoSendOnClosedChannel == ~panicked

---------------------------------------------------------------------------
(* Unregistration of a superseded session *)

\* C33: when Hub.Run unregisters a session whose device has authenticated
\* on another session since, the device -> session entry of the device still
\* names that other session and the routing entries written by the
\* chat.register frames of that other session remain.
C33_UnregisterKeepsSuccessor ==
    [][(/\ last'.op = "run.unregister"
        /\ client[last'.s].deviceUUID # NoDevice
        /\ hub.clients[client[last'.s].deviceUUID] \notin {NoSession, last'.s})
       => LET d == client[last'.s].deviceUUID IN
          /\ hub'.clients[d] = hub.clients[d]
          /\ \A k \in DOMAIN hub.chatParticipants :
                (hub.chatParticipants[k] = d /\ regBy[k] = hub.clients[d])
                    => hub'.chatParticipants[k] = d]_vars

---------------------------------------------------------------------------
(* message.send by a banned device *)

\* C34: a message.send dispatched on a session authenticated as a device
\* that has a ban record is neither delivered to a session nor stored in
\* the queue.
C34_BannedDeviceSendsNothing ==
    [][(/\ last'.op = "message.send"
        /\ client[last'.s].authed
        /\ IsBanned(rdb, client[last'.s].deviceUUID))
       => /\ rdb'.msg = rdb.msg
          /\ rdb'.msg_queue = rdb.msg_queue
          /\ \A o \in Sessions : \A i \in 1..Len(Put(o)) :
                Put(o)[i].type # "message.received"]_vars

---------------------------------------------------------------------------
(* A full outbound channel in front of a relayed message
   (internal/websocket/hub.go handleMessageSend, client.go SendMessage) *)

MaxFramesF == 3
MaxTakenF == 2

\* Both devices online and registered for c1; s2 has sent typing.start
\* frames until the outbound channel of s1 is full, and the write pump of s1
\* has taken none of them (handleTyping puts one typing.indicator each).
AliceFlooded ==
    LET c == BothOnline.client["s1"]
        flood == [i \in 1..(SendBuffer - Buffered(c)) |->
                     [Frame("typing.indicator") EXCEPT !.chat_uuid = "c1"]]
    IN [BothOnline EXCEPT !.client =
           [s \in Sessions |-> IF s = "s1" THEN [c EXCEPT !.send = c.send \o flood]
                                ELSE BothOnline.client[s]]]

NextFull ==
    \/ /\ nframes < MaxFramesF
       /\ \E m \in Mids, c \in Contents :
             MessageSend("s2", SendPayload("c1", m, B64Encode(c), "pB", "sB"))
    \/ /\ nframes < MaxFramesF
       /\ \E m \in Mids :
             MessageSend("s1", SendPayload("c1", m, B64Encode("x"), "pA", "sA"))
    \/ /\ nframes < MaxFramesF
       /\ Inbound("s2", "typing.start", TypingPayload("c1", "pB", "sB"))
    \/ /\ client["s1"].taken < MaxTakenF
       /\ WritePump("s1")

SpecFull == InitFrom(AliceFlooded) /\ [][NextFull]_vars

\* SpecBuffer reaches AliceFlooded: its negation is violated there.
FloodedReached == ~(Cur = AliceFlooded /\ client["s1"].taken = 0)

PutOf(type, chatUUID, messageID) ==
    \E o \in Sessions : \E i \in 1..Len(Put(o)) :
        /\ Put(o)[i].type = type
        /\ Put(o)[i].chat_uuid = chatUUID
        /\ Put(o)[i].message_id = messageID

\* C35: a message.send that is answered with message.ack was put on the
\* recipient's outbound channel as message.received or was stored in the
\* offline queue of its chat by the same dispatch.
C35_AckedMeansRelayedOrQueued ==
    [][(/\ last'.op = "message.send"
        /\ \E i \in 1..Len(Put(last'.s)) : Put(last'.s)[i].type = "message.ack")
       => \/ PutOf("message.received", last'.p.chat_uuid, last'.p.message_id)
          \/ /\ rdb'.msg[<<last'.p.chat_uuid, last'.p.message_id>>].exists
             /\ rdb'.msg_queue[last'.p.chat_uuid].ids
                  = Append(rdb.msg_queue[last'.p.chat_uuid].ids, last'.p.message_id)]_vars

\* C36: message.delivered for a message is put on a channel only by a
\* dispatch that also put the message.received of that message on the
\* recipient's channel.
C36_DeliveredAfterReceived ==
    [][\A c \in Chats, m \in Mids :
          PutOf("message.delivered", c, m) => PutOf("message.received", c, m)]_vars

---------------------------------------------------------------------------
(* message.send racing with the recipient's chat.register
   (internal/websocket/hub.go handleMessageSend, handleChatRegister) *)

MaxFramesC == 3

\* dA online on s1 and registered as (c1, pA); dB authenticated on s2 and
\* not yet registered for any chat.
BobAuthed == handleAuth(AliceOnline, 0, "s2", AuthPayload("dB", 0))

NextRace ==
    \/ /\ nframes < MaxFramesC
       /\ \E m \in Mids :
             Dispatch("s1", "message.send",
                      SendPayload("c1", m, B64Encode("x"), "pA", "sA"))
    \/ /\ nframes < MaxFramesC
       /\ Dispatch("s2", "chat.register", [chats |-> <<GoodItem>>])
    \/ SendStmt("s1")
    \/ RegisterStmt("s2")

SpecRace == InitFrom(BobAuthed) /\ [][NextRace]_vars

Acked(s, chatUUID, messageID) ==
    \E i \in 1..Len(client[s].send) :
        /\ client[s].send[i].type = "message.ack"
        /\ client[s].send[i].chat_uuid = chatUUID
        /\ client[s].send[i].message_id = messageID

ReceivedOn(s, chatUUID, messageID) ==
    \E i \in 1..Len(client[s].send) :
        /\ client[s].send[i].type = "message.received"
        /\ client[s].send[i].chat_uuid = chatUUID
        /\ client[s].send[i].message_id = messageID

\* C37: once the send of pA and the chat.register of pB have both returned,
\* every acknowledged message of pA has been put on the channel of pB's
\* session (directly or by the drain): no live queue entry of c1 is left
\* undelivered while pB is online and registered.
C37_SendRacingRegister ==
    (/\ \A s \in Sessions : pc[s].at = "idle"
     /\ Routed(hub, "c1", "pB") = "s2")
    => \A m \in Mids :
          (Acked("s1", "c1", m) \/ rdb.msg[<<"c1", m>>].exists)
             => ReceivedOn("s2", "c1", m)

---------------------------------------------------------------------------
(* message.read from outside the chat
   (internal/websocket/hub.go handleMessageRead) *)

\* Device d is a participant of the chat: it created or joined it, or it
\* holds a route for one of its participant ids.
ParticipantDevice(db, h, chatUUID, d) ==
    \/ /\ db.chat[chatUUID].exists
       /\ d \in {db.chat[chatUUID].participant_a_device,
                 db.chat[chatUUID].participant_b_device}
    \/ \E k \in DOMAIN h.chatParticipants :
          k[1] = chatUUID /\ h.chatParticipants[k] = d

\* C38: a message.read sent by an authenticated device that is not a
\* participant of the named chat deletes no queue entry and puts no
\* message.read.ack on any channel.
C38_OutsiderReadHasNoEffect ==
    [][(/\ last'.op = "message.read"
        /\ client[last'.s].authed
        /\ ~ParticipantDevice(rdb, hub, last'.p.chat_uuid, client[last'.s].deviceUUID))
       => /\ rdb'.msg = rdb.msg
          /\ rdb'.msg_queue = rdb.msg_queue
          /\ \A o \in Sessions : \A i \in 1..Len(Put(o)) :
                Put(o)[i].type # "message.read.ack"]_vars

---------------------------------------------------------------------------
(* Calls admitted by CheckRateLimit within one window
   (internal/redis/ratelimit.go CheckRateLimit) *)

\* The message.send frames of session s that passed CheckRateLimit and were
\* relayed: each was answered with one message.ack.
AdmittedSends(s) ==
    Cardinality({i \in 1..Len(client[s].send) : client[s].send[i].type = "message.ack"})

\* C39: the calls of one device that CheckRateLimit admits within one 60 s
\* window never exceed the limit: while the first window after the start is
\* still open, dA has had at most RateLimitPerMinute sends admitted.
C39_WindowNeverExceedsLimit ==
    now < RateLimitWindow => AdmittedSends("s1") <= RateLimitPerMinute

---------------------------------------------------------------------------
(* StoreKeyBundle and GetKeyBundle, one Redis command per step *)

MaxStores == 2

\* The key sets a device may register: set g has the identity key and signed
\* prekey of StoredBundle(g) and the one-time prekeys PreKeyIn(g, id).
KeySets == {1, 2}

NoBundle == [registration_id |-> 0, identity_key |-> "", signed_prekey |-> ""]

StoredBundle(g) ==
    [registration_id |-> g, identity_key |-> <<"ik", g>>, signed_prekey |-> <<"spk", g>>]

PreKeyIn(g, id) == [id |-> id, public_key |-> <<"pk", g, id>>]

\* The key set a bundle or a one-time prekey belongs to.
KeySetOf(key) == key[2]

\* A key request that has not started.
NoRequest == [pc |-> "idle", bundle |-> NoBundle, got |-> NoPreKey, g |-> 0, prekeys |-> {}]

\* StoreKeyBundle, first command: SET keybundle:<device> with the 30-day TTL.
StoreBundleSet(db, t, deviceUUID, g) ==
    [db EXCEPT !.keybundle[deviceUUID] =
        [exists |-> TRUE, exp |-> (t \div 1000) + KeyBundleTTL, value |-> StoredBundle(g)]]

\* StoreKeyBundle, second command: the Lua script that deletes the prekey
\* hash, sets the new fields and the TTL.
StorePreKeysScript(db, t, deviceUUID, g, preKeys) ==
    [db EXCEPT !.prekeys[deviceUUID] =
        [exists |-> TRUE,
         fields |-> [id \in preKeys |-> PreKeyIn(g, id)],
         exp |-> (t \div 1000) + KeyBundleTTL]]

KeyStep(f, r, db, op) ==
    /\ fetch' = [fetch EXCEPT ![f] = r]
    /\ rdb' = db
    /\ last' = [op |-> op, s |-> NoSession, p |-> [f |-> f]]
    /\ UNCHANGED <<now, ticks, hub, client, panicked, joinRes, regBy, mu, pc>>

\* Handlers.RegisterKeysPublic -> StoreKeyBundle of request f, up to and
\* including the SET of the bundle: 401 without an active subscription; the
\* script is skipped for an empty list of prekeys.
RegisterKeysSet(f, deviceUUID, g, preKeys) ==
    /\ fetch[f].pc = "idle"
    /\ nframes' = nframes + 1
    /\ IF ~IsSubscriptionActive(rdb, now, deviceUUID)
       THEN KeyStep(f, [fetch[f] EXCEPT !.pc = "done"], rdb, "keys.register")
       ELSE KeyStep(f, [fetch[f] EXCEPT
                           !.pc = IF preKeys = {} THEN "done" ELSE "store.script",
                           !.g = g, !.prekeys = preKeys],
                    StoreBundleSet(rdb, now, deviceUUID, g), "keys.register")

\* StoreKeyBundle of request f, its script and return.
RegisterKeysScript(f, deviceUUID) ==
    /\ fetch[f].pc = "store.script"
    /\ nframes' = nframes
    /\ KeyStep(f, [fetch[f] EXCEPT !.pc = "done"],
               StorePreKeysScript(rdb, now, deviceUUID, fetch[f].g, fetch[f].prekeys),
               "keys.script")

\* Handlers.GetKeyBundle -> GetKeyBundle of request f: the GET of the bundle,
\* then ConsumePreKey, whose script takes the field HKEYS lists first.
GetKeyBundleStmt(f, deviceUUID) ==
    /\ nframes' = nframes
    /\ \/ /\ fetch[f].pc = "idle"
          /\ IF rdb.keybundle[deviceUUID].exists
             THEN KeyStep(f, [fetch[f] EXCEPT !.pc = "bundle",
                                              !.bundle = rdb.keybundle[deviceUUID].value],
                          rdb, "bundle.get")
             ELSE KeyStep(f, [fetch[f] EXCEPT !.pc = "done"], rdb, "bundle.get")
       \/ /\ fetch[f].pc = "bundle"
          /\ IF HKeys(rdb, deviceUUID) = {}
             THEN KeyStep(f, [fetch[f] EXCEPT !.pc = "done"], rdb, "prekey.consume")
             ELSE \E id \in HKeys(rdb, deviceUUID) :
                    LET r == ConsumeScript(rdb, deviceUUID, id) IN
                    KeyStep(f, [fetch[f] EXCEPT !.pc = "done", !.got = r.data],
                            r.rdb, "prekey.consume")

\* Device dA, activated, has registered key set 1 with the prekeys 1 and 2.
InitKeys ==
    /\ now = 0 /\ ticks = 0 /\ nframes = 0
    /\ rdb = StorePreKeysScript(StoreBundleSet(BaseDb, 0, "dA", 1), 0, "dA", 1, {1, 2})
    /\ hub = NewHub
    /\ client = [s \in Sessions |-> NewClient]
    /\ panicked = FALSE
    /\ last = NoOp
    /\ joinRes = [c \in Callers |-> NoCall]
    /\ fetch = [f \in Fetchers |-> NoRequest]
    /\ regBy = [k \in DOMAIN NewHub.chatParticipants |-> NoSession]
    /\ mu = NewMutex
    /\ pc = [g \in Goroutines |-> Waiting]

\* Every registration lists at least one prekey.
NextKeys ==
    \/ /\ nframes < MaxStores
       /\ \E f \in Fetchers, g \in KeySets, P \in (SUBSET PreKeyIds) \ {{}} :
             RegisterKeysSet(f, "dA", g, P)
    \/ \E f \in Fetchers : RegisterKeysScript(f, "dA")
    \/ \E f \in Fetchers : GetKeyBundleStmt(f, "dA")

SpecKeys == InitKeys /\ [][NextKeys]_vars

\* C40: a bundle returned by GetKeyBundle is never mixed: its one-time
\* prekey, when it carries one, belongs to the key set of its identity key
\* and signed prekey.
C40_NoMixedBundle ==
    \A f \in Fetchers :
        (fetch[f].pc = "done" /\ fetch[f].bundle # NoBundle /\ fetch[f].got # NoPreKey)
            => /\ KeySetOf(fetch[f].got.public_key) = KeySetOf(fetch[f].bundle.identity_key)
               /\ KeySetOf(fetch[f].got.public_key) = KeySetOf(fetch[f].bundle.signed_prekey)

====
